---- MODULE Spec2Model ----
(***************************************************************************)
(* oreno-quic: packet/frame codec, QuicCrypto, Connection,                 *)
(* ConnectionManager and the server receive loop, as state machines.       *)
(*                                                                         *)
(* Bytes are naturals 0..255, byte strings are sequences of bytes.         *)
(* Option<T> is a sequence of length 0 (None) or 1 (Some).                 *)
(* Integers of the model stay below 2^31; the codec operators are exact on *)
(* that range.  The operators named _u64 take and return a u64 as its 8    *)
(* big-endian bytes and are exact on the whole range.                      *)
(***************************************************************************)
EXTENDS Integers, Sequences, FiniteSets, TLC

VARIABLES
    conn,         \* Spec: the Connection under test; SpecServer: the client's Connection
    produced,     \* packets the Connection has returned so far, in call order
    last,         \* the last operation on conn and what it returned
    connections,  \* ConnectionManager::connections (a function key -> Connection)
    outbound,     \* datagrams the server loop sent while processing the last datagram
    dispatched,   \* frames the server loop dispatched while processing the last datagram
    created,      \* log of the Connection::new_server calls of the server loop
    lastIn,       \* the last datagram the server loop received, and how it was routed
    mode,         \* which server loop runs: "main" (src/main.rs) or "tls" (examples/server.rs)
    to_server,    \* SpecHandshake: packets of the client on their way to the server, in order
    to_client,    \* SpecHandshake: packets of the server on their way to the client, in order
    exchanges,    \* SpecHandshake: datagrams delivered so far
    peer,         \* SpecCrypto: the QuicCrypto of the endpoint opposite to conn
    wire,         \* SpecCrypto: the last packet sealed by encrypt_packet, if any
    derived       \* SpecCrypto: the levels both endpoints have called setup_*_keys for

connVars == <<conn, produced, last>>
srvVars == <<connections, outbound, dispatched, created, lastIn, mode>>
chanVars == <<to_server, to_client, exchanges>>
cryVars == <<peer, wire, derived>>
vars == <<conn, produced, last, connections, outbound, dispatched, created, lastIn, mode,
          to_server, to_client, exchanges, peer, wire, derived>>

----------------------------------------------------------------------------
(* Bounds of the model *)

\* packets one Connection may produce; the highest packet number sealed
MaxPn == 3
\* datagrams the server loop handles in one behaviour
MaxDatagrams == 2
\* packets the client of the server loop may produce, and the Connection whose
\* QuicCrypto is driven
MaxClientPackets == 2
\* datagrams delivered between the two endpoints of a handshake
MaxExchanges == 6

----------------------------------------------------------------------------
(* Byte-string helpers *)

None == <<>>
Some(x) == <<x>>

Take(buf, n) == SubSeq(buf, 1, n)
Drop(buf, n) == SubSeq(buf, n + 1, Len(buf))

RECURSIVE Zeros(_)
Zeros(n) == IF n = 0 THEN <<>> ELSE <<0>> \o Zeros(n - 1)


put_u16(v) == << (v \div 256) % 256, v % 256 >>
put_u32(v) == << (v \div 16777216) % 256, (v \div 65536) % 256, (v \div 256) % 256, v % 256 >>

\* String::from_utf8: is the byte string well-formed UTF-8
RECURSIVE IsUtf8(_)
IsUtf8(b) ==
    IF b = <<>> THEN TRUE
    ELSE LET c == b[1]
             cont(i) == Len(b) >= i /\ b[i] >= 128 /\ b[i] <= 191
         IN  IF c < 128 THEN IsUtf8(Drop(b, 1))
             ELSE IF c >= 194 /\ c <= 223 THEN cont(2) /\ IsUtf8(Drop(b, 2))
             ELSE IF c >= 224 /\ c <= 239
                  THEN /\ cont(2) /\ cont(3)
                       /\ (c = 224 => b[2] >= 160)
                       /\ (c = 237 => b[2] <= 159)
                       /\ IsUtf8(Drop(b, 3))
             ELSE IF c >= 240 /\ c <= 244
                  THEN /\ cont(2) /\ cont(3) /\ cont(4)
                       /\ (c = 240 => b[2] >= 144)
                       /\ (c = 244 => b[2] <= 143)
                       /\ IsUtf8(Drop(b, 4))
             ELSE FALSE

----------------------------------------------------------------------------
(* packet.rs: packet numbers and headers *)

PacketTypeCode(t) ==
    CASE t = "Initial" -> 0
      [] t = "ZeroRtt" -> 1
      [] t = "Handshake" -> 2
      [] t = "Retry" -> 3
      [] t = "Short" -> 4

encode_packet_number(packet_number) ==
    IF packet_number < 64 THEN << packet_number >>
    ELSE IF packet_number < 16384 THEN put_u16(16384 + packet_number)
    ELSE IF packet_number < 1073741824
         THEN << 128 + (packet_number \div 16777216), (packet_number \div 65536) % 256,
                 (packet_number \div 256) % 256, packet_number % 256 >>
    ELSE << 192, 0, 0, 0 >> \o put_u32(packet_number)

\* Result<u64, PacketError> and the bytes left in the buffer
decode_packet_number(buf) ==
    IF buf = <<>> THEN [ok |-> FALSE, value |-> 0, rest |-> buf]
    ELSE LET len_bits == buf[1] \div 64
             len == 2 ^ len_bits
         IN  IF Len(buf) < len THEN [ok |-> FALSE, value |-> 0, rest |-> buf]
             ELSE [ok |-> TRUE,
                   value |-> CASE len_bits = 0 -> buf[1] % 64
                               [] len_bits = 1 -> (buf[1] % 64) * 256 + buf[2]
                               [] len_bits = 2 -> (buf[1] % 64) * 16777216 + buf[2] * 65536
                                                  + buf[3] * 256 + buf[4]
                               [] len_bits = 3 -> ((((buf[1] % 64) * 256 + buf[2]) * 256 + buf[3]) * 256 + buf[4])
                                                      * 65536 * 65536
                                                  + buf[5] * 16777216 + buf[6] * 65536
                                                  + buf[7] * 256 + buf[8],
                   rest |-> Drop(buf, len)]

\* the same encoder on the whole range of u64: the value is given as its 8
\* big-endian bytes (u64::to_be_bytes)
encode_packet_number_u64(packet_number) ==
    IF Take(packet_number, 7) = Zeros(7) /\ packet_number[8] < 64
    THEN << packet_number[8] >>
    ELSE IF Take(packet_number, 6) = Zeros(6) /\ packet_number[7] < 64
    THEN << 64 + packet_number[7], packet_number[8] >>
    ELSE IF Take(packet_number, 4) = Zeros(4) /\ packet_number[5] < 64
    THEN << 128 + packet_number[5], packet_number[6], packet_number[7], packet_number[8] >>
    ELSE << 192 + (packet_number[1] % 64) >> \o Drop(packet_number, 1)

\* the same decoder with the value returned as its 8 big-endian bytes
decode_packet_number_u64(buf) ==
    IF buf = <<>> THEN [ok |-> FALSE, value |-> Zeros(8), rest |-> buf]
    ELSE LET len_bits == buf[1] \div 64
             len == 2 ^ len_bits
         IN  IF Len(buf) < len THEN [ok |-> FALSE, value |-> Zeros(8), rest |-> buf]
             ELSE [ok |-> TRUE,
                   value |-> Zeros(8 - len) \o << buf[1] % 64 >> \o SubSeq(buf, 2, len),
                   rest |-> Drop(buf, len)]

LongHeader(packet_type, version, dest_conn_id, src_conn_id, packet_number) ==
    [form |-> "Long", packet_type |-> packet_type, version |-> version,
     dest_conn_id |-> dest_conn_id, src_conn_id |-> src_conn_id,
     packet_number |-> packet_number]

ShortHeader(dest_conn_id, packet_number) ==
    [form |-> "Short", dest_conn_id |-> dest_conn_id, packet_number |-> packet_number]

PacketHeader_encode(header) ==
    IF header.form = "Long"
    THEN << 128 + 16 * PacketTypeCode(header.packet_type) >>
         \o put_u32(header.version)
         \o << Len(header.dest_conn_id) % 256 >> \o header.dest_conn_id
         \o << Len(header.src_conn_id) % 256 >> \o header.src_conn_id
         \o encode_packet_number(header.packet_number)
    ELSE << 64 >> \o header.dest_conn_id \o encode_packet_number(header.packet_number)

NoHeader == [form |-> "None"]
\* a decoder that returns a default header where it should fail
HeaderErr_defaults(buf) ==
    [ok |-> TRUE, header |-> [form |-> "Short", dest_conn_id |-> <<>>, packet_number |-> 0],
     rest |-> <<>>]

HeaderErr(buf) == [ok |-> FALSE, header |-> NoHeader, rest |-> buf]

\* Result<PacketHeader, PacketError> and the bytes left in the buffer
PacketHeader_decode(buf) ==
    IF buf = <<>> THEN HeaderErr(buf)
    ELSE IF buf[1] >= 128
    THEN LET code == (buf[1] \div 16) % 4
             packet_type == CASE code = 0 -> "Initial" [] code = 1 -> "ZeroRtt"
                              [] code = 2 -> "Handshake" [] code = 3 -> "Retry"
             b1 == Drop(buf, 1)
         IN  IF Len(b1) < 4 THEN HeaderErr(b1)
             ELSE LET version == ((b1[1] * 256 + b1[2]) * 256 + b1[3]) * 256 + b1[4]
                      b2 == Drop(b1, 4)
                  IN  IF b2 = <<>> THEN HeaderErr(b2)
                      ELSE LET dlen == b2[1]
                               b3 == Drop(b2, 1)
                           IN  IF Len(b3) < dlen THEN HeaderErr(b3)
                               ELSE LET dest == Take(b3, dlen)
                                        b4 == Drop(b3, dlen)
                                    IN  IF b4 = <<>> THEN HeaderErr(b4)
                                        ELSE LET slen == b4[1]
                                                 b5 == Drop(b4, 1)
                                             IN  IF Len(b5) < slen THEN HeaderErr(b5)
                                                 ELSE LET src == Take(b5, slen)
                                                          pn == decode_packet_number(Drop(b5, slen))
                                                      IN  IF ~pn.ok THEN HeaderErr(pn.rest)
                                                          ELSE [ok |-> TRUE,
                                                                header |-> LongHeader(packet_type, version, dest, src, pn.value),
                                                                rest |-> pn.rest]
    ELSE LET b1 == Drop(buf, 1)
         IN  IF Len(b1) < 8 THEN HeaderErr(b1)
             ELSE LET pn == decode_packet_number(Drop(b1, 8))
                  IN  IF ~pn.ok THEN HeaderErr(pn.rest)
                      ELSE [ok |-> TRUE, header |-> ShortHeader(Take(b1, 8), pn.value),
                            rest |-> pn.rest]

----------------------------------------------------------------------------
(* frame.rs: variable-length integers and frames *)

encode_varint(value) ==
    IF value < 64 THEN << value >>
    ELSE IF value < 16384 THEN put_u16(16384 + value)
    ELSE IF value < 1073741824
         THEN << 128 + (value \div 16777216), (value \div 65536) % 256,
                 (value \div 256) % 256, value % 256 >>
    ELSE << 192, 0, 0, 0 >> \o put_u32(value)

\* Result<u64, FrameError> and the bytes left in the buffer
decode_varint(buf) ==
    IF buf = <<>> THEN [ok |-> FALSE, value |-> 0, rest |-> buf]
    ELSE LET len_bits == buf[1] \div 64
             len == 2 ^ len_bits
         IN  IF Len(buf) < len THEN [ok |-> FALSE, value |-> 0, rest |-> buf]
             ELSE [ok |-> TRUE,
                   value |-> CASE len_bits = 0 -> buf[1] % 64
                               [] len_bits = 1 -> (buf[1] % 64) * 256 + buf[2]
                               [] len_bits = 2 -> (buf[1] % 64) * 16777216 + buf[2] * 65536
                                                  + buf[3] * 256 + buf[4]
                               [] len_bits = 3 -> ((((buf[1] % 64) * 256 + buf[2]) * 256 + buf[3]) * 256 + buf[4])
                                                      * 65536 * 65536
                                                  + buf[5] * 16777216 + buf[6] * 65536
                                                  + buf[7] * 256 + buf[8],
                   rest |-> Drop(buf, len)]

\* an encoder that always writes the 8-byte form
encode_varint_u64_always_8(value) == << 192 + (value[1] % 64) >> \o Drop(value, 1)

\* the same encoder on the whole range of u64: the value is given as its 8
\* big-endian bytes (u64::to_be_bytes)
encode_varint_u64(value) ==
    IF Take(value, 7) = Zeros(7) /\ value[8] < 64
    THEN << value[8] >>
    ELSE IF Take(value, 6) = Zeros(6) /\ value[7] < 64
    THEN << 64 + value[7], value[8] >>
    ELSE IF Take(value, 4) = Zeros(4) /\ value[5] < 64
    THEN << 128 + value[5], value[6], value[7], value[8] >>
    ELSE << 192 + (value[1] % 64) >> \o Drop(value, 1)

\* the same decoder with the value returned as its 8 big-endian bytes
decode_varint_u64(buf) ==
    IF buf = <<>> THEN [ok |-> FALSE, value |-> Zeros(8), rest |-> buf]
    ELSE LET len_bits == buf[1] \div 64
             len == 2 ^ len_bits
         IN  IF Len(buf) < len THEN [ok |-> FALSE, value |-> Zeros(8), rest |-> buf]
             ELSE [ok |-> TRUE,
                   value |-> Zeros(8 - len) \o << buf[1] % 64 >> \o SubSeq(buf, 2, len),
                   rest |-> Drop(buf, len)]

\* enum Frame
Padding(length) == [type |-> "Padding", length |-> length]
Ping == [type |-> "Ping"]
ConnectionClose(error_code, reason) ==
    [type |-> "ConnectionClose", error_code |-> error_code, reason |-> reason]
Crypto(offset, data) == [type |-> "Crypto", offset |-> offset, data |-> data]

\* the Crypto arm of Frame::encode: type 0x06, offset, length-prefixed data
Crypto_encode(frame) ==
    << 6 >> \o encode_varint(frame.offset) \o encode_varint(Len(frame.data)) \o frame.data

Frame_encode(frame) ==
    CASE frame.type = "Padding" -> Zeros(frame.length)
      [] frame.type = "Ping" -> << 1 >>
      [] frame.type = "ConnectionClose" ->
             << 28 >> \o encode_varint(frame.error_code) \o encode_varint(0)
             \o encode_varint(Len(frame.reason)) \o frame.reason
      [] frame.type = "Crypto" -> Crypto_encode(frame)

\* a decoder that takes one zero byte as a PADDING frame
LeadingZeros_none(buf) == 0

RECURSIVE LeadingZeros(_)
LeadingZeros(buf) ==
    IF buf # <<>> /\ buf[1] = 0 THEN 1 + LeadingZeros(Drop(buf, 1)) ELSE 0

NoFrame == [type |-> "None"]
FrameErr(err, buf) == [ok |-> FALSE, frame |-> NoFrame, rest |-> buf, err |-> err]
FrameOk(frame, buf) == [ok |-> TRUE, frame |-> frame, rest |-> buf, err |-> <<>>]

\* the Crypto arm of Frame::decode, buf after the type byte
Crypto_decode(buf) ==
    LET off == decode_varint(buf)
    IN  IF ~off.ok THEN FrameErr(<<"InvalidFormat">>, off.rest)
        ELSE LET len == decode_varint(off.rest)
             IN  IF ~len.ok THEN FrameErr(<<"InvalidFormat">>, len.rest)
                 ELSE IF Len(len.rest) < len.value THEN FrameErr(<<"InvalidFormat">>, len.rest)
                 ELSE FrameOk(Crypto(off.value, Take(len.rest, len.value)),
                              Drop(len.rest, len.value))

\* Result<Frame, FrameError> and the bytes left in the buffer
Frame_decode(buf) ==
    IF buf = <<>> THEN FrameErr(<<"InvalidFormat">>, buf)
    ELSE LET frame_type == buf[1]
             b1 == Drop(buf, 1)
         IN  CASE frame_type = 0 ->
                      LET n == LeadingZeros(b1)
                      IN  FrameOk(Padding(1 + n), Drop(b1, n))
               [] frame_type = 1 -> FrameOk(Ping, b1)
               [] frame_type = 28 ->
                      LET error_code == decode_varint(b1)
                      IN  IF ~error_code.ok THEN FrameErr(<<"InvalidFormat">>, error_code.rest)
                          ELSE LET ftype == decode_varint(error_code.rest)
                               IN  IF ~ftype.ok THEN FrameErr(<<"InvalidFormat">>, ftype.rest)
                                   ELSE LET reason_length == decode_varint(ftype.rest)
                                        IN  IF ~reason_length.ok
                                            THEN FrameErr(<<"InvalidFormat">>, reason_length.rest)
                                            ELSE IF Len(reason_length.rest) < reason_length.value
                                            THEN FrameErr(<<"InvalidFormat">>, reason_length.rest)
                                            ELSE LET reason == Take(reason_length.rest, reason_length.value)
                                                     b2 == Drop(reason_length.rest, reason_length.value)
                                                 IN  IF ~IsUtf8(reason)
                                                     THEN FrameErr(<<"InvalidFormat">>, b2)
                                                     ELSE FrameOk(ConnectionClose(error_code.value, reason), b2)
               [] frame_type = 6 -> Crypto_decode(b1)
               [] OTHER -> FrameErr(<<"UnknownFrameType", frame_type>>, b1)

\* the loop `while !packet_data.is_empty() { match Frame::decode(..) }` of the
\* receivers: the frames decoded in wire order up to the end of the payload or
\* the first decode error
RECURSIVE DecodeFrames(_)
DecodeFrames(buf) ==
    IF buf = <<>> THEN [frames |-> <<>>, err |-> <<>>]
    ELSE LET r == Frame_decode(buf)
         IN  IF ~r.ok THEN [frames |-> <<>>, err |-> r.err]
             ELSE LET more == DecodeFrames(r.rest)
                  IN  [frames |-> <<r.frame>> \o more.frames, err |-> more.err]

----------------------------------------------------------------------------
(* tls.rs: QuicClientTls / QuicServerTls over the TLS library.  The library *)
(* is driven through whole handshake flights; a flight is a byte string.   *)

ClientHello == << 22, 1 >>
ServerFlight == << 22, 2 >>
ClientFinished == << 22, 20 >>
Alert == << 21 >>

\* what the library may decide about a well-formed flight (certificate
\* validation, signature check): it is not fixed by the flight's bytes
Verdicts == {"accept", "reject"}

\* QuicClientTls::new: the ClientHello is pending from construction on
QuicClientTls_new == [phase |-> "wait_sh", pending |-> ClientHello]

\* QuicServerTls::new
QuicServerTls_new == [phase |-> "wait_ch", pending |-> <<>>]

\* get_handshake_data: drains the pending output
get_handshake_data(tls) ==
    [tls |-> [tls EXCEPT !.pending = <<>>], ok |-> TRUE, data |-> tls.pending]

\* QuicClientTls::process_handshake_data
client_process_handshake_data(tls, data, verdict) ==
    IF data = <<>> THEN [tls |-> tls, ok |-> TRUE]
    ELSE IF tls.phase = "wait_sh" /\ data = ServerFlight /\ verdict = "accept"
    THEN [tls |-> [phase |-> "done", pending |-> tls.pending \o ClientFinished], ok |-> TRUE]
    ELSE IF tls.phase = "done"
    THEN [tls |-> tls, ok |-> verdict = "accept"]
    ELSE IF tls.phase = "failed"
    THEN [tls |-> tls, ok |-> FALSE]
    ELSE [tls |-> [phase |-> "failed", pending |-> tls.pending \o Alert], ok |-> FALSE]

\* QuicServerTls::process_handshake_data
server_process_handshake_data(tls, data, verdict) ==
    IF data = <<>> THEN [tls |-> tls, ok |-> TRUE]
    ELSE IF tls.phase = "wait_ch" /\ data = ClientHello /\ verdict = "accept"
    THEN [tls |-> [phase |-> "wait_cf", pending |-> tls.pending \o ServerFlight], ok |-> TRUE]
    ELSE IF tls.phase = "wait_cf" /\ data = ClientFinished /\ verdict = "accept"
    THEN [tls |-> [phase |-> "done", pending |-> tls.pending], ok |-> TRUE]
    ELSE IF tls.phase = "done"
    THEN [tls |-> tls, ok |-> verdict = "accept"]
    ELSE IF tls.phase = "failed"
    THEN [tls |-> tls, ok |-> FALSE]
    ELSE [tls |-> [phase |-> "failed", pending |-> tls.pending \o Alert], ok |-> FALSE]

\* is_handshake_complete: !connection.is_handshaking()
is_handshake_complete(tls) == tls.phase = "done"

----------------------------------------------------------------------------
(* crypto.rs: QuicCrypto over the HKDF and the AEAD of the ring library.   *)
(* Key material is a term [ikm, path]: the input bytes and the labels of   *)
(* the HKDF steps applied to them; two materials are equal exactly when    *)
(* they were derived the same way.  A sealed payload is [body, tag]: the   *)
(* masked bytes and the tag, which is a term over everything it binds.     *)

EncryptionLevels == {"Initial", "Handshake", "Application"}

\* Result<T, CryptoError>
CryptoOk(value) == [ok |-> TRUE, value |-> value, err |-> <<>>]
CryptoErr(err) == [ok |-> FALSE, value |-> <<>>, err |-> <<err>>]

\* key material given as bytes
Bytes(b) == [ikm |-> b, path |-> <<>>]

\* the output length of HKDF_SHA256, which hkdf_expand passes to Prk::expand as
\* the length of the output
HKDF_SHA256_len == 32
\* AES_128_GCM.key_len()
AES_128_GCM_key_len == 16

\* Salt::new(HKDF_SHA256, salt).extract(ikm); every caller passes the empty salt
hkdf_extract(salt, ikm) == [ikm |-> ikm.ikm, path |-> Append(ikm.path, "extract")]

\* prk.expand(&[info], HKDF_SHA256) fixes the output length to that of the hash;
\* okm.fill(&mut output) returns Err unless output has exactly that length
hkdf_expand(prk, info, length) ==
    IF length # HKDF_SHA256_len THEN CryptoErr("HkdfError")
    ELSE CryptoOk([ikm |-> prk.ikm, path |-> Append(prk.path, info)])

derive_handshake_secrets(handshake_secret) ==
    LET prk == hkdf_extract(<<>>, Bytes(handshake_secret))
        c == hkdf_expand(prk, "c hs traffic", 32)
        s == hkdf_expand(prk, "s hs traffic", 32)
    IN  IF ~c.ok THEN c ELSE IF ~s.ok THEN s
        ELSE CryptoOk([client |-> c.value, server |-> s.value])

derive_application_secrets(application_secret) ==
    LET prk == hkdf_extract(<<>>, Bytes(application_secret))
        c == hkdf_expand(prk, "c ap traffic", 32)
        s == hkdf_expand(prk, "s ap traffic", 32)
    IN  IF ~c.ok THEN c ELSE IF ~s.ok THEN s
        ELSE CryptoOk([client |-> c.value, server |-> s.value])

\* (key, iv, pn_key) from a secret
derive_keys(secret, key_len) ==
    LET prk == hkdf_extract(<<>>, secret)
        key_material == hkdf_expand(prk, "quic key", key_len)
        iv_material == hkdf_expand(prk, "quic iv", 12)
        pn_key_material == hkdf_expand(prk, "quic hp", 16)
    IN  IF ~key_material.ok THEN key_material
        ELSE IF ~iv_material.ok THEN iv_material
        ELSE IF ~pn_key_material.ok THEN pn_key_material
        ELSE CryptoOk([key |-> key_material.value, iv |-> iv_material.value,
                       pn_key |-> pn_key_material.value])

\* the packet number is XORed into the last 8 bytes of the IV: for one IV the
\* nonce is one-to-one in the packet number
construct_nonce(iv, packet_number) == [iv |-> iv, pn |-> packet_number]

\* QuicCrypto::new: no level has keys
QuicCrypto_new == [l \in {} |-> 0]

\* HashMap::insert on QuicCrypto.keys
insert_keys(crypto, level, crypto_keys) ==
    [l \in DOMAIN crypto \cup {level} |-> IF l = level THEN crypto_keys ELSE crypto[l]]

\* returns the QuicCrypto and the Result; both directions get the same dummy
\* material (zero bytes), whatever connection_id and is_client are
setup_initial_keys(crypto, connection_id, is_client) ==
    [crypto |-> insert_keys(crypto, "Initial",
                    [local_key |-> Bytes(Zeros(16)), remote_key |-> Bytes(Zeros(16)),
                     local_iv |-> Bytes(Zeros(12)), remote_iv |-> Bytes(Zeros(12)),
                     local_pn_key |-> Bytes(Zeros(16)), remote_pn_key |-> Bytes(Zeros(16))]),
     res |-> CryptoOk(<<>>)]

\* the part setup_handshake_keys and setup_application_keys share, after the
\* secrets are derived
install_keys(crypto, level, secrets, is_client) ==
    IF ~secrets.ok THEN [crypto |-> crypto, res |-> secrets]
    ELSE LET local_secret == IF is_client THEN secrets.value.client ELSE secrets.value.server
             remote_secret == IF is_client THEN secrets.value.server ELSE secrets.value.client
             local_keys == derive_keys(local_secret, AES_128_GCM_key_len)
             remote_keys == derive_keys(remote_secret, AES_128_GCM_key_len)
         IN  IF ~local_keys.ok THEN [crypto |-> crypto, res |-> local_keys]
             ELSE IF ~remote_keys.ok THEN [crypto |-> crypto, res |-> remote_keys]
             ELSE [crypto |-> insert_keys(crypto, level,
                                  [local_key |-> local_keys.value.key,
                                   remote_key |-> remote_keys.value.key,
                                   local_iv |-> local_keys.value.iv,
                                   remote_iv |-> remote_keys.value.iv,
                                   local_pn_key |-> local_keys.value.pn_key,
                                   remote_pn_key |-> remote_keys.value.pn_key]),
                   res |-> CryptoOk(<<>>)]

setup_handshake_keys(crypto, handshake_secret, is_client) ==
    install_keys(crypto, "Handshake", derive_handshake_secrets(handshake_secret), is_client)

setup_application_keys(crypto, application_secret, is_client) ==
    install_keys(crypto, "Application", derive_application_secrets(application_secret),
                 is_client)

\* the AEAD's key stream: a byte for every key, nonce and position
keystream(key, nonce, i) ==
    (31 * nonce.pn + 7 * i + Len(key.path) + Len(nonce.iv.path) + Len(key.ikm)) % 256

\* the tag binds the key, the nonce, the associated data and the masked bytes;
\* flipped is the position of a tag byte changed in transit, 0 for none
Tag(key, nonce, aad, body) ==
    [key |-> key, nonce |-> nonce, aad |-> aad, body |-> body, flipped |-> 0]

\* LessSafeKey::seal_in_place_append_tag
seal_in_place_append_tag(key, nonce, aad, in_out) ==
    LET body == [i \in 1..Len(in_out) |-> (in_out[i] + keystream(key, nonce, i)) % 256]
    IN  [body |-> body, tag |-> Tag(key, nonce, aad, body)]

\* LessSafeKey::open_in_place: the plaintext, or Err when the tag does not match
open_in_place(key, nonce, aad, ciphertext) ==
    IF ciphertext.tag # Tag(key, nonce, aad, ciphertext.body) THEN CryptoErr("Unspecified")
    ELSE CryptoOk([i \in 1..Len(ciphertext.body) |->
                      (ciphertext.body[i] + 256 - keystream(key, nonce, i)) % 256])

encrypt_packet(crypto, level, packet_number, header, payload) ==
    IF level \notin DOMAIN crypto THEN CryptoErr("NoKeys")
    ELSE LET keys == crypto[level]
             nonce == construct_nonce(keys.local_iv, packet_number)
         IN  CryptoOk(seal_in_place_append_tag(keys.local_key, nonce, header, payload))

\* an open that leaves the header out of the associated data
decrypt_packet_without_aad(crypto, level, packet_number, header, ciphertext) ==
    IF level \notin DOMAIN crypto THEN CryptoErr("NoKeys")
    ELSE LET keys == crypto[level]
             nonce == construct_nonce(keys.remote_iv, packet_number)
             plaintext == open_in_place(keys.remote_key, nonce, ciphertext.tag.aad, ciphertext)
         IN  IF ~plaintext.ok THEN CryptoErr("DecryptionFailed")
             ELSE CryptoOk([len |-> Len(plaintext.value), plaintext |-> plaintext.value])

\* Ok(plaintext.len()), with the plaintext left in the buffer
decrypt_packet(crypto, level, packet_number, header, ciphertext) ==
    IF level \notin DOMAIN crypto THEN CryptoErr("NoKeys")
    ELSE LET keys == crypto[level]
             nonce == construct_nonce(keys.remote_iv, packet_number)
             plaintext == open_in_place(keys.remote_key, nonce, header, ciphertext)
         IN  IF ~plaintext.ok THEN CryptoErr("DecryptionFailed")
             ELSE CryptoOk([len |-> Len(plaintext.value), plaintext |-> plaintext.value])

\* bitwise exclusive or of two naturals
RECURSIVE xor(_, _)
xor(a, b) ==
    IF a = 0 THEN b ELSE IF b = 0 THEN a
    ELSE ((a + b) % 2) + 2 * xor(a \div 2, b \div 2)

\* u64::from_be_bytes
RECURSIVE u64_from_be_bytes(_)
u64_from_be_bytes(b) ==
    IF b = <<>> THEN 0 ELSE 256 * u64_from_be_bytes(Take(b, Len(b) - 1)) + b[Len(b)]

\* a packet number protection that does not ask for keys
encrypt_packet_number_unkeyed(crypto, level, packet_number, sample) ==
    CryptoOk(xor(packet_number, u64_from_be_bytes(Take(sample, 8))))

\* sample has at least 8 bytes (sample[7] is indexed)
encrypt_packet_number(crypto, level, packet_number, sample) ==
    IF level \notin DOMAIN crypto THEN CryptoErr("NoKeys")
    ELSE CryptoOk(xor(packet_number, u64_from_be_bytes(Take(sample, 8))))

decrypt_packet_number(crypto, level, encrypted_pn, sample) ==
    encrypt_packet_number(crypto, level, encrypted_pn, sample)

----------------------------------------------------------------------------
(* connection.rs: Connection *)

ConnectionStates == {"Initial", "Handshake", "Established", "Closing", "Closed"}

\* Result<Vec<u8>, ConnectionError>
PacketOk(packet) == [ok |-> TRUE, packet |-> packet, err |-> <<>>]
PacketErr(err) == [ok |-> FALSE, packet |-> <<>>, err |-> <<err>>]
\* Result<Option<Vec<u8>>, ConnectionError>
OptOk(opt) == [ok |-> TRUE, packet |-> opt, err |-> <<>>]
OptErr(err) == [ok |-> FALSE, packet |-> None, err |-> <<err>>]

\* local_conn_id is the value ConnectionId::random(8) returned
new_client(remote_addr, local_conn_id) ==
    [local_conn_id |-> local_conn_id,
     remote_conn_id |-> None,
     state |-> "Initial",
     remote_addr |-> remote_addr,
     packet_number |-> 0,
     version |-> 1,
     is_client |-> TRUE,
     crypto |-> setup_initial_keys(QuicCrypto_new, local_conn_id, TRUE).crypto,
     tls_config |-> None,
     client_tls |-> None,
     server_tls |-> None]

\* a responder constructor that forgets the peer's connection id
new_server_without_remote(remote_addr, remote_conn_id, local_conn_id) ==
    [new_client(remote_addr, local_conn_id) EXCEPT !.is_client = FALSE]

new_server(remote_addr, remote_conn_id, local_conn_id) ==
    [local_conn_id |-> local_conn_id,
     remote_conn_id |-> Some(remote_conn_id),
     state |-> "Initial",
     remote_addr |-> remote_addr,
     packet_number |-> 0,
     version |-> 1,
     is_client |-> FALSE,
     crypto |-> setup_initial_keys(QuicCrypto_new, remote_conn_id, FALSE).crypto,
     tls_config |-> None,
     client_tls |-> None,
     server_tls |-> None]

\* a counter advanced before it is read
next_packet_number_pre_increment(c) ==
    [conn |-> [c EXCEPT !.packet_number = @ + 1], pn |-> c.packet_number + 1]

\* returns the number and the Connection with the counter advanced
next_packet_number(c) ==
    [conn |-> [c EXCEPT !.packet_number = @ + 1], pn |-> c.packet_number]

\* a destination connection id that is always empty
dest_conn_id_of_empty(c) == <<>>

\* remote_conn_id.clone().unwrap_or_else(|| ConnectionId::new(vec![]))
dest_conn_id_of(c) == IF c.remote_conn_id = None THEN <<>> ELSE c.remote_conn_id[1]

\* an encoder that writes the frames last to first
RECURSIVE EncodeFrames_reversed(_)
EncodeFrames_reversed(frames) ==
    IF frames = <<>> THEN <<>>
    ELSE EncodeFrames_reversed(Tail(frames)) \o Frame_encode(Head(frames))

RECURSIVE EncodeFrames(_)
EncodeFrames(frames) ==
    IF frames = <<>> THEN <<>> ELSE Frame_encode(Head(frames)) \o EncodeFrames(Tail(frames))

\* header.encode and frame.encode never return Err
encode_packet(header, frames) ==
    PacketOk(PacketHeader_encode(header) \o EncodeFrames(frames))

create_initial_packet(c, frames) ==
    LET n == next_packet_number(c)
        header == LongHeader("Initial", c.version, dest_conn_id_of(c), c.local_conn_id, n.pn)
    IN  [conn |-> n.conn, res |-> encode_packet(header, frames)]

create_handshake_packet(c, frames) ==
    LET n == next_packet_number(c)
        header == LongHeader("Handshake", c.version, dest_conn_id_of(c), c.local_conn_id, n.pn)
    IN  [conn |-> n.conn, res |-> encode_packet(header, frames)]

handle_state_transition(c, new_state) == [c EXCEPT !.state = new_state]

is_closed(c) == c.state = "Closed"

\* QuicClientTls::new / QuicServerTls::new succeed for the TlsConfig of tls.rs
setup_tls(c) ==
    IF c.is_client
    THEN [c EXCEPT !.tls_config = Some("config"), !.client_tls = Some(QuicClientTls_new)]
    ELSE [c EXCEPT !.tls_config = Some("config"), !.server_tls = Some(QuicServerTls_new)]

start_tls_handshake(c) ==
    IF c.is_client
    THEN IF c.client_tls # None
         THEN LET h == get_handshake_data(c.client_tls[1])
                  c1 == [c EXCEPT !.client_tls = Some(h.tls)]
              IN  IF h.data # <<>>
                  THEN create_initial_packet(c1, << Crypto(0, h.data) >>)
                  ELSE [conn |-> c1, res |-> PacketErr("TlsNotSetup")]
         ELSE [conn |-> c, res |-> PacketErr("TlsNotSetup")]
    ELSE IF c.server_tls # None
         THEN LET h == get_handshake_data(c.server_tls[1])
                  c1 == [c EXCEPT !.server_tls = Some(h.tls)]
              IN  IF h.data # <<>>
                  THEN create_initial_packet(c1, << Crypto(0, h.data) >>)
                  ELSE [conn |-> c1, res |-> PacketErr("TlsNotSetup")]
         ELSE [conn |-> c, res |-> PacketErr("TlsNotSetup")]

\* a response whose CRYPTO frame starts after its own data
crypto_response_offset_after(c, data) ==
    LET r == create_handshake_packet(c, << Crypto(Len(data), data) >>)
    IN  [conn |-> r.conn, res |-> OptOk(Some(r.res.packet))]

\* the Some(packet) wrapping of `let packet = self.create_handshake_packet(..)?`
crypto_response(c, data) ==
    LET r == create_handshake_packet(c, << Crypto(0, data) >>)
    IN  [conn |-> r.conn, res |-> OptOk(Some(r.res.packet))]

\* a handler that closes the Connection when the TLS driver fails
process_crypto_frame_closing(c, crypto_frame, verdict) ==
    IF crypto_frame.type # "Crypto" THEN [conn |-> c, res |-> OptOk(None)]
    ELSE LET tls == IF c.is_client THEN c.client_tls ELSE c.server_tls
         IN  IF tls = None THEN [conn |-> c, res |-> OptOk(None)]
             ELSE LET p == IF c.is_client
                           THEN client_process_handshake_data(tls[1], crypto_frame.data, verdict)
                           ELSE server_process_handshake_data(tls[1], crypto_frame.data, verdict)
                      c1 == IF c.is_client THEN [c EXCEPT !.client_tls = Some(p.tls)]
                            ELSE [c EXCEPT !.server_tls = Some(p.tls)]
                  IN  IF ~p.ok
                      THEN [conn |-> handle_state_transition(c1, "Closed"),
                            res |-> OptErr("TlsHandshakeFailed")]
                      ELSE IF is_handshake_complete(p.tls)
                      THEN [conn |-> handle_state_transition(c1, "Established"),
                            res |-> OptOk(None)]
                      ELSE LET h == get_handshake_data(p.tls)
                               c2 == IF c.is_client THEN [c1 EXCEPT !.client_tls = Some(h.tls)]
                                     ELSE [c1 EXCEPT !.server_tls = Some(h.tls)]
                           IN  IF h.data # <<>> THEN crypto_response(c2, h.data)
                               ELSE [conn |-> c2, res |-> OptOk(None)]

process_crypto_frame(c, crypto_frame, verdict) ==
    IF crypto_frame.type # "Crypto" THEN [conn |-> c, res |-> OptOk(None)]
    ELSE IF c.is_client
    THEN IF c.client_tls = None THEN [conn |-> c, res |-> OptOk(None)]
         ELSE LET p == client_process_handshake_data(c.client_tls[1], crypto_frame.data, verdict)
                  c1 == [c EXCEPT !.client_tls = Some(p.tls)]
              IN  IF ~p.ok THEN [conn |-> c1, res |-> OptErr("TlsHandshakeFailed")]
                  ELSE IF is_handshake_complete(p.tls)
                  THEN [conn |-> handle_state_transition(c1, "Established"), res |-> OptOk(None)]
                  ELSE LET h == get_handshake_data(p.tls)
                           c2 == [c1 EXCEPT !.client_tls = Some(h.tls)]
                       IN  IF h.data # <<>> THEN crypto_response(c2, h.data)
                           ELSE [conn |-> c2, res |-> OptOk(None)]
    ELSE IF c.server_tls = None THEN [conn |-> c, res |-> OptOk(None)]
         ELSE LET p == server_process_handshake_data(c.server_tls[1], crypto_frame.data, verdict)
                  c1 == [c EXCEPT !.server_tls = Some(p.tls)]
              IN  IF ~p.ok THEN [conn |-> c1, res |-> OptErr("TlsHandshakeFailed")]
                  ELSE IF is_handshake_complete(p.tls)
                  THEN [conn |-> handle_state_transition(c1, "Established"), res |-> OptOk(None)]
                  ELSE LET h == get_handshake_data(p.tls)
                           c2 == [c1 EXCEPT !.server_tls = Some(h.tls)]
                       IN  IF h.data # <<>> THEN crypto_response(c2, h.data)
                           ELSE [conn |-> c2, res |-> OptOk(None)]

is_tls_handshake_complete(c) ==
    IF c.is_client
    THEN c.client_tls # None /\ is_handshake_complete(c.client_tls[1])
    ELSE c.server_tls # None /\ is_handshake_complete(c.server_tls[1])

\* a close that sends its frame in a Handshake packet
close_at_handshake_level(c, reason) ==
    create_handshake_packet(handle_state_transition(c, "Closing"),
                            << ConnectionClose(0, reason) >>)

\* close without the state transition
close_keeps_state(c, reason) == create_initial_packet(c, << ConnectionClose(0, reason) >>)

close(c, reason) ==
    LET frame == ConnectionClose(0, reason)
        c1 == handle_state_transition(c, "Closing")
    IN  IF c1.state \in {"Initial", "Handshake"}
        THEN create_initial_packet(c1, << frame >>)
        ELSE LET n == next_packet_number(c1)
                 header == LongHeader("Initial", c1.version, dest_conn_id_of(c1),
                                      c1.local_conn_id, n.pn)
             IN  [conn |-> n.conn, res |-> encode_packet(header, << frame >>)]

----------------------------------------------------------------------------
(* connection.rs: ConnectionManager; the table is a function key -> Connection *)

ConnectionManager_new == [k \in {} |-> 0]

\* Option<&mut Connection>
get_connection(table, conn_id) ==
    IF conn_id \in DOMAIN table THEN Some(table[conn_id]) ELSE None

\* an insert that keeps the entry the key already has
add_connection_keep_old(table, conn_id, connection) ==
    [k \in DOMAIN table \cup {conn_id} |-> IF k \in DOMAIN table THEN table[k] ELSE connection]

\* HashMap::insert
add_connection(table, conn_id, connection) ==
    [k \in DOMAIN table \cup {conn_id} |-> IF k = conn_id THEN connection ELSE table[k]]

\* a remove that leaves the table as it is
remove_connection_noop(table, conn_id) == table

\* HashMap::remove
remove_connection(table, conn_id) ==
    [k \in DOMAIN table \ {conn_id} |-> table[k]]

----------------------------------------------------------------------------
(* main.rs and examples/server.rs: the body of the receive loop *)

\* the connection id a datagram is routed by
routing_conn_id(header) ==
    IF header.form = "Long" THEN header.src_conn_id ELSE header.dest_conn_id

\* an existence test that never finds the entry
connection_exists_never(table, conn_id) == FALSE

connection_exists(table, conn_id) == get_connection(table, conn_id) # None

\* write through the `connection` handle into the table
update_connection(table, conn_id, connection) == [table EXCEPT ![conn_id] = connection]

Datagram(data, to) == [data |-> data, to |-> to]

\* a ConnectionClose arm that marks the Connection Closed and goes on with the
\* next frame
dispatch_frame_close_continues(st, conn_id, frame, peer_addr, verdict, m) ==
    LET connection == st.connections[conn_id]
        st1 == [st EXCEPT !.dispatched = Append(@, frame)]
    IN  CASE frame.type = "Ping" ->
                 LET r == create_initial_packet(connection, << Ping >>)
                 IN  [st1 EXCEPT !.connections = update_connection(@, conn_id, r.conn),
                                 !.outbound = Append(@, Datagram(r.res.packet, peer_addr))]
          [] frame.type = "ConnectionClose" ->
                 LET closed == handle_state_transition(connection, "Closed")
                 IN  [st1 EXCEPT !.connections = update_connection(@, conn_id, closed)]
          [] frame.type = "Padding" -> st1
          [] frame.type = "Crypto" ->
                 IF m = "main" THEN st1
                 ELSE LET r == process_crypto_frame(connection, frame, verdict)
                      IN  [st1 EXCEPT !.connections = update_connection(@, conn_id, r.conn),
                                      !.outbound = IF r.res.ok /\ r.res.packet # None
                                                   THEN Append(@, Datagram(r.res.packet[1], peer_addr))
                                                   ELSE @]

\* one arm of `match frame`; st is [connections, outbound, dispatched, stop]
dispatch_frame(st, conn_id, frame, peer_addr, verdict, m) ==
    LET connection == st.connections[conn_id]
        st1 == [st EXCEPT !.dispatched = Append(@, frame)]
    IN  CASE frame.type = "Ping" ->
                 LET r == create_initial_packet(connection, << Ping >>)
                 IN  [st1 EXCEPT !.connections = update_connection(@, conn_id, r.conn),
                                 !.outbound = Append(@, Datagram(r.res.packet, peer_addr))]
          [] frame.type = "ConnectionClose" ->
                 LET closed == handle_state_transition(connection, "Closed")
                 IN  [st1 EXCEPT !.connections =
                                     remove_connection(update_connection(@, conn_id, closed), conn_id),
                                 !.stop = TRUE]
          [] frame.type = "Padding" -> st1
          [] frame.type = "Crypto" ->
                 IF m = "main" THEN st1
                 ELSE LET r == process_crypto_frame(connection, frame, verdict)
                      IN  [st1 EXCEPT !.connections = update_connection(@, conn_id, r.conn),
                                      !.outbound = IF r.res.ok /\ r.res.packet # None
                                                   THEN Append(@, Datagram(r.res.packet[1], peer_addr))
                                                   ELSE @]

\* a frame loop whose decoder hands out every frame twice: the first time
\* without consuming its bytes
RECURSIVE dispatch_frames_twice(_, _, _, _, _, _)
dispatch_frames_twice(st, conn_id, packet_data, peer_addr, verdict, m) ==
    IF packet_data = <<>> THEN st
    ELSE LET d == Frame_decode(packet_data)
         IN  IF ~d.ok THEN st
             ELSE LET st1 == dispatch_frame(st, conn_id, d.frame, peer_addr, verdict, m)
                      st2 == IF st1.stop THEN st1
                             ELSE dispatch_frame(st1, conn_id, d.frame, peer_addr, verdict, m)
                  IN  IF st2.stop THEN st2
                      ELSE dispatch_frames_twice(st2, conn_id, d.rest, peer_addr, verdict, m)

\* a frame loop that goes on after a decode error instead of stopping
RECURSIVE dispatch_frames_continue(_, _, _, _, _, _)
dispatch_frames_continue(st, conn_id, packet_data, peer_addr, verdict, m) ==
    IF packet_data = <<>> THEN st
    ELSE LET d == Frame_decode(packet_data)
         IN  IF ~d.ok THEN dispatch_frames_continue(st, conn_id, Drop(packet_data, 1),
                                                    peer_addr, verdict, m)
             ELSE LET st1 == dispatch_frame(st, conn_id, d.frame, peer_addr, verdict, m)
                  IN  IF st1.stop THEN st1
                      ELSE dispatch_frames_continue(st1, conn_id, d.rest, peer_addr, verdict, m)

\* while !packet_data.is_empty() { match Frame::decode(&mut packet_data) { .. } }
RECURSIVE dispatch_frames(_, _, _, _, _, _)
dispatch_frames(st, conn_id, packet_data, peer_addr, verdict, m) ==
    IF packet_data = <<>> THEN st
    ELSE LET d == Frame_decode(packet_data)
         IN  IF ~d.ok THEN st
             ELSE LET st1 == dispatch_frame(st, conn_id, d.frame, peer_addr, verdict, m)
                  IN  IF st1.stop THEN st1
                      ELSE dispatch_frames(st1, conn_id, d.rest, peer_addr, verdict, m)

\* one iteration of the loop for the datagram (data, peer_addr); local_conn_id is
\* what ConnectionId::random(8) returns if a Connection is created, verdict what
\* the TLS library decides if it is fed; m is "main" or "tls"
server_loop_body(table, data, peer_addr, local_conn_id, verdict, m) ==
    LET h == PacketHeader_decode(data)
    IN  IF ~h.ok
        THEN [connections |-> table, outbound |-> <<>>, dispatched |-> <<>>,
              created |-> <<>>, routed |-> None]
        ELSE LET conn_id == routing_conn_id(h.header)
                 exists == connection_exists(table, conn_id)
                 fresh == new_server(peer_addr, conn_id, local_conn_id)
                 new_connection == IF m = "tls" THEN setup_tls(fresh) ELSE fresh
                 t1 == IF exists THEN table ELSE add_connection(table, conn_id, new_connection)
                 st == dispatch_frames([connections |-> t1, outbound |-> <<>>,
                                        dispatched |-> <<>>, stop |-> FALSE],
                                       conn_id, h.rest, peer_addr, verdict, m)
             IN  [connections |-> st.connections, outbound |-> st.outbound,
                  dispatched |-> st.dispatched,
                  created |-> IF exists THEN <<>> ELSE << [key |-> conn_id, conn |-> fresh] >>,
                  routed |-> Some(conn_id)]

----------------------------------------------------------------------------
(* examples/client.rs: what the client does with a datagram it receives *)

\* r is [conn, sent]: process the CRYPTO frames, send every response packet
RECURSIVE client_frames(_, _, _)
client_frames(r, packet_data, verdict) ==
    IF packet_data = <<>> THEN r
    ELSE LET d == Frame_decode(packet_data)
         IN  IF ~d.ok THEN r
             ELSE IF d.frame.type = "Crypto"
             THEN LET p == process_crypto_frame(r.conn, d.frame, verdict)
                  IN  client_frames([conn |-> p.conn,
                                     sent |-> IF p.res.ok /\ p.res.packet # None
                                              THEN Append(r.sent, p.res.packet[1]) ELSE r.sent],
                                    d.rest, verdict)
             ELSE client_frames(r, d.rest, verdict)

client_receive(c, data, verdict) ==
    LET h == PacketHeader_decode(data)
    IN  IF ~h.ok THEN [conn |-> c, sent |-> <<>>]
        ELSE client_frames([conn |-> c, sent |-> <<>>], h.rest, verdict)

----------------------------------------------------------------------------
(* Inputs *)

\* values ConnectionId::random(8) may return
CidPool == { <<1, 2, 3, 4, 5, 6, 7, 8>>, <<9, 9, 9, 9, 9, 9, 9, 9>> }
\* connection ids a peer puts in its packets: 4 and 8 bytes, the empty one, and
\* the longest one, 20 bytes
PeerCids ==
    { <<1, 2, 3, 4>>, <<9, 9, 9, 9, 9, 9, 9, 9>>, <<>>,
      <<1, 1, 1, 1, 1, 1, 1, 1, 1, 1, 1, 1, 1, 1, 1, 1, 1, 1, 1, 1>> }
ServerAddr == "127.0.0.1:4433"
ClientAddr == "127.0.0.1:50000"
OtherAddr == "127.0.0.1:50001"
\* the frames argument of create_initial_packet / create_handshake_packet
FrameLists == { << Ping >>, << Padding(5), Ping, Padding(3) >> }
\* the reason argument of close: "", "bye", and a two-byte character
Reasons == { <<>>, <<98, 121, 101>>, <<195, 169>> }
\* frames handed to process_crypto_frame
InFrames == { Crypto(0, ClientHello), Crypto(0, ServerFlight), Crypto(0, ClientFinished),
              Crypto(0, <<255>>), Crypto(2, ClientHello), Ping }

NoOp == [op |-> "none"]

----------------------------------------------------------------------------
(* Spec: one Connection driven through its public operations *)

\* no channel between two endpoints is modelled
InitChannelsIdle ==
    /\ to_server = <<>>
    /\ to_client = <<>>
    /\ exchanges = 0

\* no second endpoint's keys and no sealed packet are modelled
InitCryptoIdle ==
    /\ peer = QuicCrypto_new
    /\ wire = None
    /\ derived = {}

InitServerIdle ==
    /\ connections = ConnectionManager_new
    /\ outbound = <<>>
    /\ dispatched = <<>>
    /\ created = <<>>
    /\ lastIn = NoOp
    /\ mode = "none"

Init ==
    /\ conn \in { new_client(ServerAddr, l) : l \in CidPool }
                \cup { new_server(ClientAddr, r, l) : r \in PeerCids, l \in CidPool }
    /\ produced = <<>>
    /\ last = NoOp
    /\ InitServerIdle
    /\ InitChannelsIdle
    /\ InitCryptoIdle

\* the operation returned res: record it, and the packet if it returned one
Returned(op, arg, res) ==
    \E r \in { res } :
        /\ conn' = r.conn
        /\ last' = [op |-> op, arg |-> arg, before |-> conn, res |-> r.res]
        /\ produced' = IF r.res.ok /\ r.res.packet # <<>>
                       THEN Append(produced, IF op = "process_crypto_frame"
                                             THEN r.res.packet[1] ELSE r.res.packet)
                       ELSE produced

CreateInitialPacket ==
    /\ conn.packet_number < MaxPn
    /\ \E frames \in FrameLists :
          Returned("create_initial_packet", frames, create_initial_packet(conn, frames))
    /\ UNCHANGED <<srvVars, chanVars, cryVars>>

CreateHandshakePacket ==
    /\ conn.packet_number < MaxPn
    /\ \E frames \in FrameLists :
          Returned("create_handshake_packet", frames, create_handshake_packet(conn, frames))
    /\ UNCHANGED <<srvVars, chanVars, cryVars>>

Close ==
    /\ conn.packet_number < MaxPn
    /\ \E reason \in Reasons : Returned("close", reason, close(conn, reason))
    /\ UNCHANGED <<srvVars, chanVars, cryVars>>

\* TLS is set up once per Connection, as every caller does
SetupTls ==
    /\ conn.tls_config = None
    /\ conn' = setup_tls(conn)
    /\ last' = [op |-> "setup_tls", arg |-> <<>>, before |-> conn, res |-> PacketOk(<<>>)]
    /\ UNCHANGED <<produced, srvVars, chanVars, cryVars>>

StartTlsHandshake ==
    /\ conn.packet_number < MaxPn
    /\ Returned("start_tls_handshake", <<>>, start_tls_handshake(conn))
    /\ UNCHANGED <<srvVars, chanVars, cryVars>>

ProcessCryptoFrame ==
    /\ conn.packet_number < MaxPn
    /\ \E frame \in InFrames, verdict \in Verdicts :
          Returned("process_crypto_frame", frame, process_crypto_frame(conn, frame, verdict))
    /\ UNCHANGED <<srvVars, chanVars, cryVars>>

\* the ConnectionClose arm of a receiver: handle_state_transition(Closed)
RecvConnectionClose ==
    /\ conn' = handle_state_transition(conn, "Closed")
    /\ last' = [op |-> "recv_connection_close", arg |-> <<>>, before |-> conn,
                res |-> PacketOk(<<>>)]
    /\ UNCHANGED <<produced, srvVars, chanVars, cryVars>>

Next ==
    \/ CreateInitialPacket
    \/ CreateHandshakePacket
    \/ Close
    \/ SetupTls
    \/ StartTlsHandshake
    \/ ProcessCryptoFrame
    \/ RecvConnectionClose

Spec == Init /\ [][Next]_vars

----------------------------------------------------------------------------
(* SpecServer: the receive loop of main.rs ("main") or examples/server.rs  *)
(* ("tls"), a client Connection that sends it packets, and datagrams of    *)
(* other peers.  The transport may deliver a datagram late or twice.       *)

Range(seq) == { seq[i] : i \in 1..Len(seq) }

\* datagrams whose header is cut short: empty; the long-header flag alone; cut
\* in the version; a destination CID length beyond the end; cut before the
\* source CID; a source CID length beyond the end; cut before the packet
\* number; a two-byte packet number with one byte; a short header with fewer
\* than eight CID bytes
Malformed ==
    { <<>>,
      << 128 >>,
      << 128, 0, 0, 1 >>,
      << 128, 0, 0, 0, 1, 5, 1, 2 >>,
      << 128, 0, 0, 0, 1, 0 >>,
      << 128, 0, 0, 0, 1, 0, 4, 1, 2, 3 >>,
      << 128, 0, 0, 0, 1, 0, 4, 1, 2, 3, 4 >>,
      << 128, 0, 0, 0, 1, 0, 4, 1, 2, 3, 4, 64 >>,
      << 64, 1, 2, 3 >> }

\* datagrams other peers send: the malformed ones; an unknown frame type after a
\* PING, as the first byte, and after padding and two PINGs; CONNECTION_CLOSE
\* followed by PING; a short-header packet addressed to a
\* connection id of the pool
Injected ==
    Malformed \cup
    { PacketHeader_encode(LongHeader("Initial", 1, <<>>, <<1, 2, 3, 4>>, 0)) \o << 1, 255, 1 >>,
      PacketHeader_encode(LongHeader("Initial", 1, <<>>, <<1, 2, 3, 4>>, 0)) \o << 2, 1 >>,
      PacketHeader_encode(LongHeader("Initial", 1, <<>>, <<1, 2, 3, 4>>, 0)) \o << 0, 0, 1, 1, 255, 28 >>,
      PacketHeader_encode(LongHeader("Initial", 1, <<>>, <<1, 2, 3, 4>>, 0))
          \o EncodeFrames(<< ConnectionClose(0, <<98, 121, 101>>), Ping >>),
      PacketHeader_encode(ShortHeader(<<1, 2, 3, 4, 5, 6, 7, 8>>, 0)) \o << 1 >> }

InitServer ==
    /\ conn = new_client(ServerAddr, <<9, 9, 9, 9, 9, 9, 9, 9>>)
    /\ produced = <<>>
    /\ last = NoOp
    /\ connections = ConnectionManager_new
    /\ outbound = <<>>
    /\ dispatched = <<>>
    /\ created = <<>>
    /\ lastIn = [n |-> 0, data |-> <<>>, peer_addr |-> "", routed |-> None, existed |-> FALSE]
    /\ mode \in {"main", "tls"}
    /\ InitChannelsIdle
    /\ InitCryptoIdle

\* one iteration of the server's receive loop
ServerRecv ==
    /\ lastIn.n < MaxDatagrams
    /\ \E in \in { Datagram(d, ClientAddr) : d \in Range(produced) }
                 \cup { Datagram(d, OtherAddr) : d \in Injected },
          local_conn_id \in CidPool, verdict \in Verdicts :
          \E r \in { server_loop_body(connections, in.data, in.to, local_conn_id, verdict, mode) } :
              /\ connections' = r.connections
              /\ outbound' = r.outbound
              /\ dispatched' = r.dispatched
              /\ created' = created \o r.created
              /\ lastIn' = [n |-> lastIn.n + 1, data |-> in.data, peer_addr |-> in.to,
                            routed |-> r.routed,
                            existed |-> r.routed # None /\ r.created = <<>>]
    /\ UNCHANGED <<connVars, mode, chanVars, cryVars>>

\* the client sends a PING in an Initial packet
ClientPing ==
    /\ conn.packet_number < MaxClientPackets
    /\ Returned("create_initial_packet", << Ping >>, create_initial_packet(conn, << Ping >>))
    /\ UNCHANGED <<srvVars, chanVars, cryVars>>

\* the client closes: close("bye")
ClientClose ==
    /\ conn.packet_number < MaxClientPackets
    /\ Returned("close", <<98, 121, 101>>, close(conn, <<98, 121, 101>>))
    /\ UNCHANGED <<srvVars, chanVars, cryVars>>

\* the client sets up TLS and sends its first flight
ClientStartTls ==
    /\ conn.tls_config = None
    /\ conn.packet_number < MaxClientPackets
    /\ Returned("start_tls_handshake", <<>>, start_tls_handshake(setup_tls(conn)))
    /\ UNCHANGED <<srvVars, chanVars, cryVars>>

\* the client receives one of the datagrams the server sent it
ClientRecv ==
    /\ conn.packet_number < MaxClientPackets
    /\ \E i \in 1..Len(outbound), verdict \in Verdicts :
          /\ outbound[i].to = ClientAddr
          /\ \E r \in { client_receive(conn, outbound[i].data, verdict) } :
                 /\ conn' = r.conn
                 /\ produced' = produced \o r.sent
                 /\ last' = [op |-> "client_receive", arg |-> outbound[i].data,
                             before |-> conn, res |-> r.sent]
    /\ UNCHANGED <<srvVars, chanVars, cryVars>>

NextServer ==
    \/ ClientPing
    \/ ClientClose
    \/ ClientStartTls
    \/ ClientRecv
    \/ ServerRecv

SpecServer == InitServer /\ [][NextServer]_vars

----------------------------------------------------------------------------
(* SpecHandshake: the client of examples/client.rs and the receive loop of *)
(* examples/server.rs joined by a lossless in-order channel in each         *)
(* direction: every packet one end produces is delivered to the other.     *)

RECURSIVE Packets(_)
Packets(datagrams) ==
    IF datagrams = <<>> THEN <<>> ELSE << Head(datagrams).data >> \o Packets(Tail(datagrams))

InitHandshake ==
    /\ conn \in { setup_tls(new_client(ServerAddr, l)) : l \in CidPool }
    /\ produced = <<>>
    /\ last = NoOp
    /\ connections = ConnectionManager_new
    /\ outbound = <<>>
    /\ dispatched = <<>>
    /\ created = <<>>
    /\ lastIn = [n |-> 0, data |-> <<>>, peer_addr |-> "", routed |-> None, existed |-> FALSE]
    /\ mode = "tls"
    /\ InitChannelsIdle
    /\ InitCryptoIdle

\* the client sends its first flight
HsClientStart ==
    /\ conn.packet_number < MaxClientPackets
    /\ \E r \in { start_tls_handshake(conn) } :
          /\ Returned("start_tls_handshake", <<>>, r)
          /\ to_server' = IF r.res.ok THEN Append(to_server, r.res.packet) ELSE to_server
    /\ UNCHANGED <<srvVars, to_client, exchanges, cryVars>>

\* the client sends a PING
HsClientPing ==
    /\ conn.packet_number < MaxClientPackets
    /\ \E r \in { create_initial_packet(conn, << Ping >>) } :
          /\ Returned("create_initial_packet", << Ping >>, r)
          /\ to_server' = Append(to_server, r.res.packet)
    /\ UNCHANGED <<srvVars, to_client, exchanges, cryVars>>

\* the server receives the next packet of the client and sends its answers
HsServerRecv ==
    /\ to_server # <<>>
    /\ exchanges < MaxExchanges
    /\ \E local_conn_id \in CidPool, verdict \in Verdicts :
          \E r \in { server_loop_body(connections, Head(to_server), ClientAddr,
                                      local_conn_id, verdict, mode) } :
              /\ connections' = r.connections
              /\ outbound' = r.outbound
              /\ dispatched' = r.dispatched
              /\ created' = created \o r.created
              /\ lastIn' = [n |-> lastIn.n + 1, data |-> Head(to_server), peer_addr |-> ClientAddr,
                            routed |-> r.routed,
                            existed |-> r.routed # None /\ r.created = <<>>]
              /\ to_client' = to_client \o Packets(r.outbound)
    /\ to_server' = Tail(to_server)
    /\ exchanges' = exchanges + 1
    /\ UNCHANGED <<connVars, mode, cryVars>>

\* the client receives the next packet of the server and sends its answers
HsClientRecv ==
    /\ to_client # <<>>
    /\ exchanges < MaxExchanges
    /\ \E verdict \in Verdicts :
          \E r \in { client_receive(conn, Head(to_client), verdict) } :
              /\ conn' = r.conn
              /\ produced' = produced \o r.sent
              /\ last' = [op |-> "client_receive", arg |-> Head(to_client),
                          before |-> conn, res |-> r.sent]
              /\ to_server' = to_server \o r.sent
    /\ to_client' = Tail(to_client)
    /\ exchanges' = exchanges + 1
    /\ UNCHANGED <<srvVars, cryVars>>

NextHandshake ==
    \/ HsClientStart
    \/ HsClientPing
    \/ HsServerRecv
    \/ HsClientRecv

SpecHandshake == InitHandshake /\ [][NextHandshake]_vars

----------------------------------------------------------------------------
(* SpecMgr: a ConnectionManager driven through its operations *)

MgrKeys == { <<1, 2, 3, 4>>, <<5, 6, 7, 8>>, <<>> }
MgrConns == { new_client("127.0.0.1:8080", <<1, 2, 3, 4, 5, 6, 7, 8>>),
              new_client("127.0.0.1:8081", <<1, 2, 3, 4, 5, 6, 7, 8>>),
              new_server("127.0.0.1:8080", <<1, 2, 3, 4>>, <<9, 9, 9, 9, 9, 9, 9, 9>>) }

InitMgr ==
    /\ connections = ConnectionManager_new
    /\ lastIn = [op |-> "new"]
    /\ conn = NoOp
    /\ produced = <<>>
    /\ last = NoOp
    /\ outbound = <<>>
    /\ dispatched = <<>>
    /\ created = <<>>
    /\ mode = "none"
    /\ InitChannelsIdle
    /\ InitCryptoIdle

MgrAdd ==
    /\ \E k \in MgrKeys, c \in MgrConns :
          /\ connections' = add_connection(connections, k, c)
          /\ lastIn' = [op |-> "add_connection", key |-> k, connection |-> c]
    /\ UNCHANGED <<connVars, chanVars, cryVars, outbound, dispatched, created, mode>>

MgrRemove ==
    /\ \E k \in MgrKeys :
          /\ connections' = remove_connection(connections, k)
          /\ lastIn' = [op |-> "remove_connection", key |-> k]
    /\ UNCHANGED <<connVars, chanVars, cryVars, outbound, dispatched, created, mode>>

MgrGet ==
    /\ \E k \in MgrKeys :
          lastIn' = [op |-> "get_connection", key |-> k, res |-> get_connection(connections, k)]
    /\ UNCHANGED <<connVars, chanVars, cryVars, connections, outbound, dispatched, created, mode>>

NextMgr == MgrAdd \/ MgrRemove \/ MgrGet

SpecMgr == InitMgr /\ [][NextMgr]_vars

----------------------------------------------------------------------------
(* SpecCrypto: the Connection conn and the QuicCrypto of the endpoint      *)
(* opposite to it, driven through the operations of QuicCrypto, and close  *)
(* on conn.  A sealed packet may be changed in one byte before it is       *)
(* opened.                                                                 *)

Roles == {"initiator", "responder"}
RoleOf(c) == IF c.is_client THEN "initiator" ELSE "responder"
\* the QuicCrypto of a role: conn.crypto for conn's own role
QuicCryptoOf(role) == IF role = RoleOf(conn) THEN conn.crypto ELSE peer

\* secrets the handshake hands to setup_handshake_keys / setup_application_keys
Secrets == { <<1, 2, 3>>, <<4, 5, 6>> }
\* header bytes given as associated data, and payloads
Headers == { <<192, 1>>, <<64>> }
Payloads == { <<1>>, <<6, 0, 2>> }
\* header-protection samples (at least 8 bytes)
Samples == { <<0, 0, 0, 0, 0, 0, 1, 37>>, <<0, 0, 0, 0, 0, 0, 0, 3, 9>> }

\* the packet as sealed, and every way to change one byte of its header, of its
\* masked bytes or of its tag
Tampered(pkt) ==
    { [kind |-> "none", header |-> pkt.header, ciphertext |-> pkt.ciphertext] }
    \cup { [kind |-> "header", header |-> [pkt.header EXCEPT ![i] = (@ + d) % 256],
            ciphertext |-> pkt.ciphertext] : i \in 1..Len(pkt.header), d \in {1} }
    \cup { [kind |-> "body", header |-> pkt.header,
            ciphertext |-> [pkt.ciphertext EXCEPT !.body[i] = (@ + d) % 256]] :
              i \in 1..Len(pkt.ciphertext.body), d \in {1} }
    \cup { [kind |-> "tag", header |-> pkt.header,
            ciphertext |-> [pkt.ciphertext EXCEPT !.tag.flipped = i]] : i \in {1, 16} }

InitCrypto ==
    /\ conn = new_client(ServerAddr, <<9, 9, 9, 9, 9, 9, 9, 9>>)
    /\ peer = new_server(ClientAddr, <<9, 9, 9, 9, 9, 9, 9, 9>>, <<1, 2, 3, 4, 5, 6, 7, 8>>).crypto
    /\ wire = None
    /\ derived = {}
    /\ produced = <<>>
    /\ last = NoOp
    /\ InitServerIdle
    /\ InitChannelsIdle

\* store the QuicCrypto of a role
SetQuicCrypto(role, crypto) ==
    IF role = RoleOf(conn)
    THEN conn' = [conn EXCEPT !.crypto = crypto] /\ peer' = peer
    ELSE peer' = crypto /\ conn' = conn

SetupInitialKeys ==
    /\ \E role \in Roles, connection_id \in CidPool :
          \E r \in { setup_initial_keys(QuicCryptoOf(role), connection_id, role = "initiator") } :
              /\ SetQuicCrypto(role, r.crypto)
              /\ last' = [op |-> "setup_initial_keys", by |-> role, level |-> "Initial",
                          before |-> QuicCryptoOf(role), after |-> r.crypto, res |-> r.res]
    /\ UNCHANGED <<produced, wire, derived, srvVars, chanVars>>

\* the handshake hands one secret to both endpoints, and each calls
\* setup_handshake_keys with it
SetupHandshakeKeys ==
    /\ \E handshake_secret \in Secrets :
          \E r \in { setup_handshake_keys(conn.crypto, handshake_secret, conn.is_client) },
             q \in { setup_handshake_keys(peer, handshake_secret, ~conn.is_client) } :
              /\ conn' = [conn EXCEPT !.crypto = r.crypto]
              /\ peer' = q.crypto
              /\ derived' = derived \cup {"Handshake"}
              /\ last' = [op |-> "setup_handshake_keys", level |-> "Handshake",
                          secret |-> handshake_secret,
                          before |-> conn.crypto, after |-> r.crypto, res |-> r.res,
                          peer_res |-> q.res]
    /\ UNCHANGED <<produced, wire, srvVars, chanVars>>

\* likewise for the application secret
SetupApplicationKeys ==
    /\ \E application_secret \in Secrets :
          \E r \in { setup_application_keys(conn.crypto, application_secret, conn.is_client) },
             q \in { setup_application_keys(peer, application_secret, ~conn.is_client) } :
              /\ conn' = [conn EXCEPT !.crypto = r.crypto]
              /\ peer' = q.crypto
              /\ derived' = derived \cup {"Application"}
              /\ last' = [op |-> "setup_application_keys", level |-> "Application",
                          secret |-> application_secret,
                          before |-> conn.crypto, after |-> r.crypto, res |-> r.res,
                          peer_res |-> q.res]
    /\ UNCHANGED <<produced, wire, srvVars, chanVars>>

EncryptPacket ==
    /\ \E role \in Roles, level \in EncryptionLevels, packet_number \in {0, MaxPn},
          header \in Headers, payload \in Payloads :
          \E r \in { encrypt_packet(QuicCryptoOf(role), level, packet_number, header, payload) } :
              /\ wire' = IF r.ok
                         THEN Some([by |-> role, level |-> level, packet_number |-> packet_number,
                                    header |-> header, payload |-> payload,
                                    ciphertext |-> r.value])
                         ELSE wire
              /\ last' = [op |-> "encrypt_packet", by |-> role, level |-> level, res |-> r]
    /\ UNCHANGED <<conn, produced, peer, derived, srvVars, chanVars>>

\* a role opens the sealed packet, as it is or changed in one byte, with the
\* packet number it was sealed with
DecryptPacket ==
    /\ wire # None
    /\ \E role \in Roles, level \in EncryptionLevels :
       \E t \in IF level = wire[1].level THEN Tampered(wire[1])
                ELSE { x \in Tampered(wire[1]) : x.kind = "none" } :
          last' = [op |-> "decrypt_packet", by |-> role, level |-> level, kind |-> t.kind,
                   sent |-> wire[1],
                   res |-> decrypt_packet(QuicCryptoOf(role), level, wire[1].packet_number,
                                          t.header, t.ciphertext)]
    /\ UNCHANGED <<conn, produced, cryVars, srvVars, chanVars>>

EncryptPacketNumber ==
    /\ \E level \in EncryptionLevels, packet_number \in {1, MaxPn}, sample \in Samples :
          last' = [op |-> "encrypt_packet_number", level |-> level,
                   packet_number |-> packet_number, sample |-> sample,
                   res |-> encrypt_packet_number(conn.crypto, level, packet_number, sample)]
    /\ UNCHANGED <<conn, produced, cryVars, srvVars, chanVars>>

\* the protected number is one encrypt_packet_number returned for the sample
DecryptPacketNumber ==
    /\ \E level \in EncryptionLevels, packet_number \in {1, MaxPn}, sample \in Samples :
          \E encrypted_pn \in { xor(packet_number, u64_from_be_bytes(Take(sample, 8))) } :
              last' = [op |-> "decrypt_packet_number", level |-> level,
                       packet_number |-> encrypted_pn, sample |-> sample,
                       res |-> decrypt_packet_number(conn.crypto, level, encrypted_pn, sample)]
    /\ UNCHANGED <<conn, produced, cryVars, srvVars, chanVars>>

\* close("bye") on conn
CryptoClose ==
    /\ conn.packet_number < MaxClientPackets
    /\ Returned("close", <<98, 121, 101>>, close(conn, <<98, 121, 101>>))
    /\ UNCHANGED <<cryVars, srvVars, chanVars>>

NextCrypto ==
    \/ SetupInitialKeys
    \/ SetupHandshakeKeys
    \/ SetupApplicationKeys
    \/ EncryptPacket
    \/ DecryptPacket
    \/ EncryptPacketNumber
    \/ DecryptPacketNumber
    \/ CryptoClose

SpecCrypto == InitCrypto /\ [][NextCrypto]_vars

----------------------------------------------------------------------------
(* SpecVarint: the variable-length integer codec of frame.rs and the       *)
(* packet number codec of packet.rs, applied to values of the whole u64    *)
(* range: a value is encoded, and the encoding is decoded with other bytes *)
(* following it in the buffer.                                             *)

RECURSIVE Fill(_, _)
Fill(n, b) == IF n = 0 THEN <<>> ELSE <<b>> \o Fill(n - 1, b)

\* u64 values as 8 big-endian bytes: 0 and, for every length of 1 to 8
\* significant bytes, the leading byte 1, 63, 64, 128 or 255 followed by bytes
\* 0 or by bytes 255.  Among them 63, 64, 16383, 16384, 2^30 - 1, 2^30,
\* 2^62 - 1, 2^62 and 2^64 - 1.
U64Values ==
    { Zeros(8) } \cup
    { Zeros(8 - n) \o << a >> \o Fill(n - 1, f) : n \in 1..8, a \in {1, 63, 64, 128, 255},
                                                 f \in {0, 255} }

\* what follows the encoding in the buffer
Trailing == { <<>>, << 1 >>, << 200, 7 >> }

InitVarint ==
    /\ last \in { [op |-> "input", value |-> v] : v \in U64Values }
    /\ conn = NoOp
    /\ produced = <<>>
    /\ InitServerIdle
    /\ InitChannelsIdle
    /\ InitCryptoIdle

EncodeVarint ==
    /\ last.op = "input"
    /\ last' = [op |-> "encode_varint", value |-> last.value,
                res |-> encode_varint_u64(last.value)]
    /\ UNCHANGED <<conn, produced, srvVars, chanVars, cryVars>>

DecodeVarint ==
    /\ last.op = "encode_varint"
    /\ \E trailing \in Trailing :
          last' = [op |-> "decode_varint", value |-> last.value, encoded |-> last.res,
                   trailing |-> trailing, res |-> decode_varint_u64(last.res \o trailing)]
    /\ UNCHANGED <<conn, produced, srvVars, chanVars, cryVars>>

EncodePacketNumber ==
    /\ last.op = "input"
    /\ last' = [op |-> "encode_packet_number", value |-> last.value,
                res |-> encode_packet_number_u64(last.value)]
    /\ UNCHANGED <<conn, produced, srvVars, chanVars, cryVars>>

DecodePacketNumber ==
    /\ last.op = "encode_packet_number"
    /\ \E trailing \in Trailing :
          last' = [op |-> "decode_packet_number", value |-> last.value, encoded |-> last.res,
                   trailing |-> trailing,
                   res |-> decode_packet_number_u64(last.res \o trailing)]
    /\ UNCHANGED <<conn, produced, srvVars, chanVars, cryVars>>

NextVarint ==
    \/ EncodeVarint
    \/ DecodeVarint
    \/ EncodePacketNumber
    \/ DecodePacketNumber

SpecVarint == InitVarint /\ [][NextVarint]_vars

----------------------------------------------------------------------------
(* SpecCodec: the header codec of packet.rs and the frame codec of         *)
(* frame.rs.  A header, a frame or a list of frames is encoded and the     *)
(* encoding is decoded with other bytes following it in the buffer; a      *)
(* CONNECTION_CLOSE frame received from a peer is decoded and encoded      *)
(* again.                                                                  *)

\* u32 versions: 0 (version negotiation), 1 and 0x01020304
Versions == { 0, 1, 16909060 }
\* packet numbers, error codes and offsets at the boundaries of the 1, 2, 4
\* and 8 byte encodings
Numbers == { 0, 63, 64, 16383, 16384, 1073741823, 1073741824 }

HeaderInputs ==
    { LongHeader(t, v, d, s, n) : t \in {"Initial", "ZeroRtt", "Handshake", "Retry"},
                                  v \in Versions, d \in PeerCids, s \in PeerCids,
                                  n \in Numbers }
    \cup { ShortHeader(d, n) : d \in PeerCids, n \in Numbers }

FrameInputs ==
    { Padding(n) : n \in 1..4 } \cup { Ping }
    \cup { Crypto(o, d) : o \in Numbers, d \in { <<>>, <<7>>, <<1, 0, 2>>, Fill(64, 5) } }
    \cup { ConnectionClose(e, r) : e \in Numbers, r \in Reasons }

\* CONNECTION_CLOSE frames as a peer may send them (RFC 9000 19.19): type
\* 0x1c, error code, the type of the frame that triggered the error, reason
WireCloses ==
    { << 28 >> \o encode_varint(e) \o encode_varint(t) \o encode_varint(Len(r)) \o r :
          e \in {0, 10}, t \in {0, 1, 6, 64}, r \in Reasons }

\* the frames argument of encode_packet
FrameSeqs ==
    FrameLists \cup
    { << Padding(2), Padding(3) >>, << Ping, Ping >>,
      << Ping, ConnectionClose(0, <<98, 121, 101>>), Padding(1) >>,
      << Crypto(0, <<7>>), Padding(2), Crypto(1, <<>>) >>, <<>> }

\* what follows an encoded frame in the buffer
FrameTrailing == Trailing \cup { << 0, 1 >> }

InitCodec ==
    /\ last \in { [op |-> "header", arg |-> h] : h \in HeaderInputs }
                \cup { [op |-> "frame", arg |-> f] : f \in FrameInputs }
                \cup { [op |-> "wire", arg |-> w] : w \in WireCloses }
                \cup { [op |-> "frames", arg |-> fs] : fs \in FrameSeqs }
    /\ conn = NoOp
    /\ produced = <<>>
    /\ InitServerIdle
    /\ InitChannelsIdle
    /\ InitCryptoIdle

EncodeHeader ==
    /\ last.op = "header"
    /\ last' = [op |-> "PacketHeader_encode", arg |-> last.arg,
                res |-> PacketHeader_encode(last.arg)]
    /\ UNCHANGED <<conn, produced, srvVars, chanVars, cryVars>>

DecodeHeader ==
    /\ last.op = "PacketHeader_encode"
    /\ \E trailing \in Trailing :
          last' = [op |-> "PacketHeader_decode", arg |-> last.arg, encoded |-> last.res,
                   trailing |-> trailing, res |-> PacketHeader_decode(last.res \o trailing)]
    /\ UNCHANGED <<conn, produced, srvVars, chanVars, cryVars>>

EncodeFrame ==
    /\ last.op = "frame"
    /\ last' = [op |-> "Frame_encode", arg |-> last.arg, res |-> Frame_encode(last.arg)]
    /\ UNCHANGED <<conn, produced, srvVars, chanVars, cryVars>>

\* Frame::decode of an encoded frame, or of a frame received from a peer
DecodeFrame ==
    /\ last.op \in {"Frame_encode", "wire"}
    /\ \E trailing \in FrameTrailing :
          LET encoded == IF last.op = "wire" THEN last.arg ELSE last.res
          IN  last' = [op |-> "Frame_decode", arg |-> last.arg, from |-> last.op,
                       encoded |-> encoded, trailing |-> trailing,
                       res |-> Frame_decode(encoded \o trailing)]
    /\ UNCHANGED <<conn, produced, srvVars, chanVars, cryVars>>

\* Frame::encode of a frame that was decoded from the wire
ReEncodeFrame ==
    /\ last.op = "Frame_decode"
    /\ last.from = "wire"
    /\ last.res.ok
    /\ last' = [op |-> "re-encode", arg |-> last.encoded, decoded |-> last.res.frame,
                res |-> Frame_encode(last.res.frame)]
    /\ UNCHANGED <<conn, produced, srvVars, chanVars, cryVars>>

EncodePacket ==
    /\ last.op = "frames"
    /\ \E h \in { LongHeader("Initial", 1, <<>>, <<1, 2, 3, 4>>, 0),
                  ShortHeader(<<9, 9, 9, 9, 9, 9, 9, 9>>, 64) } :
          last' = [op |-> "encode_packet", arg |-> last.arg, header |-> h,
                   res |-> encode_packet(h, last.arg)]
    /\ UNCHANGED <<conn, produced, srvVars, chanVars, cryVars>>

\* a receiver of the packet: PacketHeader::decode, then the frame loop
DecodePacket ==
    /\ last.op = "encode_packet"
    /\ last.res.ok
    /\ LET d == PacketHeader_decode(last.res.packet)
       IN  last' = [op |-> "decode_packet", arg |-> last.arg, header |-> d,
                    res |-> DecodeFrames(d.rest)]
    /\ UNCHANGED <<conn, produced, srvVars, chanVars, cryVars>>

NextCodec ==
    \/ EncodeHeader
    \/ DecodeHeader
    \/ EncodeFrame
    \/ DecodeFrame
    \/ ReEncodeFrame
    \/ EncodePacket
    \/ DecodePacket

SpecCodec == InitCodec /\ [][NextCodec]_vars

----------------------------------------------------------------------------
(* Properties of one Connection (Spec) *)

HeaderOf(packet) == PacketHeader_decode(packet).header
PayloadOf(packet) == PacketHeader_decode(packet).rest
PnOf(packet) == HeaderOf(packet).packet_number
LevelOf(packet) == HeaderOf(packet).packet_type

StateRank(state) ==
    CASE state = "Initial" -> 0
      [] state = "Handshake" -> 1
      [] state = "Established" -> 2
      [] state = "Closing" -> 3
      [] state = "Closed" -> 4

\* i and j are successive packets of one encryption level
SuccessiveAtLevel(i, j) ==
    /\ i < j
    /\ LevelOf(produced[i]) = LevelOf(produced[j])
    /\ \A k \in (i + 1)..(j - 1) : LevelOf(produced[k]) # LevelOf(produced[i])

\* C1: the packet numbers a Connection assigns never decrease, and two
\* successive packets of the same encryption level carry packet numbers that
\* differ by exactly one.
C1_PacketNumbersStepByOnePerLevel ==
    \A i, j \in 1..Len(produced) :
        /\ (i < j => PnOf(produced[i]) < PnOf(produced[j]))
        /\ (SuccessiveAtLevel(i, j) => PnOf(produced[j]) = PnOf(produced[i]) + 1)

\* C2: each encryption level has its own packet-number space starting at
\* zero: the first packet sent at the Initial level and the first packet sent
\* at the Handshake level both carry packet number 0.
C2_PerLevelNumberSpaces ==
    \A j \in 1..Len(produced) :
        (\A i \in 1..(j - 1) : LevelOf(produced[i]) # LevelOf(produced[j]))
            => PnOf(produced[j]) = 0

\* C3: the connection state only advances along Initial, Handshake,
\* Established, Closing, Closed: no operation moves a Connection from a later
\* state to an earlier one.
C3_StateOnlyAdvances ==
    [][StateRank(conn'.state) >= StateRank(conn.state)]_vars

\* the trigger frame type on the wire of a CONNECTION_CLOSE frame
WireTrigger(payload) ==
    decode_varint(decode_varint(Drop(payload, 1)).rest).value

\* C4: close(reason) returns one packet that decodes to a long header of type
\* Initial with version 1 followed by exactly one CONNECTION_CLOSE frame with
\* error code 0, trigger frame type 0 and the given reason; the packet uses
\* the Connection's next packet number and the Connection is left in Closing.
C4_CloseProducesConnectionClose ==
    last.op = "close" =>
        LET d == PacketHeader_decode(last.res.packet)
            f == DecodeFrames(d.rest)
        IN  /\ last.res.ok
            /\ produced # <<>> /\ produced[Len(produced)] = last.res.packet
            /\ d.ok
            /\ d.header.form = "Long"
            /\ d.header.packet_type = "Initial"
            /\ d.header.version = 1
            /\ d.header.packet_number = last.before.packet_number
            /\ f.err = <<>>
            /\ f.frames = << ConnectionClose(0, last.arg) >>
            /\ WireTrigger(d.rest) = 0
            /\ conn.packet_number = last.before.packet_number + 1
            /\ conn.state = "Closing"

C4_Witness ==
    /\ last.op = "close"
    /\ last.arg = <<98, 121, 101>>
    /\ last.before.state = "Established"
    /\ last.before.packet_number > 0
    /\ conn.state = "Closing"

----------------------------------------------------------------------------
(* Properties of the server loop (SpecServer) *)

FramesOf(packet) == DecodeFrames(PayloadOf(packet))

HasConnectionClose(frames) == \E i \in 1..Len(frames) : frames[i].type = "ConnectionClose"
HasCrypto(frames) == \E i \in 1..Len(frames) : frames[i].type = "Crypto"

\* a datagram that decodes to an Initial long header and exactly the frame PING
IsPingOnly(data) ==
    /\ PacketHeader_decode(data).ok
    /\ HeaderOf(data).form = "Long"
    /\ HeaderOf(data).packet_type = "Initial"
    /\ FramesOf(data) = [frames |-> << Ping >>, err |-> <<>>]

\* the step is one iteration of the receive loop that decoded the header
ServerStep == lastIn'.n = lastIn.n + 1 /\ lastIn'.routed # None

\* C5: a Connection that receives CONNECTION_CLOSE produces exactly one
\* reciprocal CONNECTION_CLOSE packet for the peer before it becomes Closed.
C5_ReciprocalCloseSent ==
    HasConnectionClose(dispatched) =>
        Cardinality({ i \in 1..Len(outbound) :
                        HasConnectionClose(FramesOf(outbound[i].data).frames) }) = 1

\* C6: after every datagram the server loop has processed, no Connection
\* stored in the connection table is in state Closed.
C6_NoClosedConnectionInTable ==
    \A k \in DOMAIN connections : ~is_closed(connections[k])

C6_Witness ==
    /\ lastIn.existed
    /\ HasConnectionClose(dispatched)
    /\ lastIn.routed[1] \notin DOMAIN connections
    /\ \E i \in 1..Len(created) : created[i].key = lastIn.routed[1]

\* C7: a responder Connection is stored in the table under its own local
\* connection id, and a datagram is routed by its destination connection id.
C7_TableKeyIsLocalCid ==
    /\ \A k \in DOMAIN connections : connections[k].local_conn_id = k
    /\ lastIn.routed # None => lastIn.routed[1] = HeaderOf(lastIn.data).dest_conn_id

\* C8: a datagram with a decodable header whose routing connection id has no
\* table entry creates exactly one responder Connection (state Initial, packet
\* number 0, the datagram's peer address); a datagram whose routing id has an
\* entry is dispatched to that Connection, whose packet number and state carry
\* over, and creates none; no other entry of the table changes.
C8_CreateOrFetch ==
    [][ServerStep =>
          LET k == lastIn'.routed[1]
              sent == outbound'
          IN  /\ \A x \in (DOMAIN connections \cup DOMAIN connections') \ {k} :
                     /\ x \in DOMAIN connections /\ x \in DOMAIN connections'
                     /\ connections'[x] = connections[x]
              /\ IF k \notin DOMAIN connections
                 THEN /\ Len(created') = Len(created) + 1
                      /\ SubSeq(created', 1, Len(created)) = created
                      /\ LET c == created'[Len(created')]
                         IN  /\ c.key = k
                             /\ c.conn.state = "Initial"
                             /\ c.conn.packet_number = 0
                             /\ c.conn.remote_addr = lastIn'.peer_addr
                             /\ ~c.conn.is_client
                             /\ \A i \in 1..Len(sent) :
                                    /\ PnOf(sent[i].data) = i - 1
                                    /\ HeaderOf(sent[i].data).src_conn_id = c.conn.local_conn_id
                             /\ k \in DOMAIN connections' =>
                                    /\ connections'[k].local_conn_id = c.conn.local_conn_id
                                    /\ connections'[k].packet_number = Len(sent)
                 ELSE /\ created' = created
                      /\ \A i \in 1..Len(sent) :
                             /\ PnOf(sent[i].data) = connections[k].packet_number + i - 1
                             /\ HeaderOf(sent[i].data).src_conn_id = connections[k].local_conn_id
                      /\ k \in DOMAIN connections' =>
                             /\ connections'[k].local_conn_id = connections[k].local_conn_id
                             /\ connections'[k].remote_addr = connections[k].remote_addr
                             /\ connections'[k].packet_number
                                    = connections[k].packet_number + Len(sent)
                             /\ (~HasCrypto(dispatched') =>
                                    connections'[k].state = connections[k].state)
       ]_vars

C8_Witness ==
    /\ lastIn.existed
    /\ Len(created) = 1
    /\ lastIn.routed[1] \in DOMAIN connections
    /\ connections[lastIn.routed[1]].packet_number = 2
    /\ Len(outbound) = 1
    /\ PnOf(outbound[1].data) = 1

\* C10: a responder that ingests an Initial packet whose only frame is PING
\* emits exactly one Initial packet holding exactly one PING; sending or
\* receiving a PING changes the connection state of neither end, and the first
\* packet each end sends carries packet number 0.
C10_PingExchange ==
    [][/\ (ServerStep /\ IsPingOnly(lastIn'.data)) =>
              LET k == lastIn'.routed[1]
              IN  /\ Len(outbound') = 1
                  /\ outbound'[1].to = lastIn'.peer_addr
                  /\ IsPingOnly(outbound'[1].data)
                  /\ k \in DOMAIN connections'
                  /\ connections'[k].state
                         = (IF k \in DOMAIN connections THEN connections[k].state ELSE "Initial")
                  /\ (k \notin DOMAIN connections => PnOf(outbound'[1].data) = 0)
       /\ (last' # last /\ last'.op = "create_initial_packet") =>
              /\ IsPingOnly(last'.res.packet)
              /\ produced' = Append(produced, last'.res.packet)
              /\ conn'.state = conn.state
              /\ (produced = <<>> => PnOf(last'.res.packet) = 0)
       /\ (last' # last /\ last'.op = "client_receive" /\ IsPingOnly(last'.arg)) =>
              /\ conn' = conn
              /\ produced' = produced
      ]_vars

C10_Witness ==
    /\ last.op = "client_receive"
    /\ IsPingOnly(last.arg)
    /\ PnOf(last.arg) = 0
    /\ produced # <<>> /\ IsPingOnly(produced[1]) /\ PnOf(produced[1]) = 0
    /\ lastIn.data = produced[1]
    /\ ~lastIn.existed
    /\ outbound = << Datagram(last.arg, ClientAddr) >>
    /\ conn.state = "Initial"
    /\ lastIn.routed[1] \in DOMAIN connections
    /\ connections[lastIn.routed[1]].state = "Initial"

\* C11: a datagram whose packet header cannot be decoded (empty, the long-header
\* flag alone, cut before the version, a CID or the packet number, a CID length
\* beyond the end) is rejected by the header decoder, produces no outbound
\* datagram, creates no Connection and changes no Connection of the table.
C11_UndecodableHeaderIsRejected ==
    [][lastIn'.n = lastIn.n + 1 =>
          /\ lastIn'.data \in Malformed => ~PacketHeader_decode(lastIn'.data).ok
          /\ ~PacketHeader_decode(lastIn'.data).ok =>
                 /\ lastIn'.routed = None
                 /\ outbound' = <<>>
                 /\ dispatched' = <<>>
                 /\ created' = created
                 /\ connections' = connections
      ]_vars

C11_Witness ==
    /\ lastIn.n = 2
    /\ lastIn.data = << 128, 0, 0, 0, 1, 5, 1, 2 >>
    /\ lastIn.routed = None
    /\ outbound = <<>>
    /\ \E k \in DOMAIN connections : connections[k].packet_number = 1

\* frame lists a payload may start with, and type bytes no frame has
KnownPrefixes == { <<>>, << Ping >>, << Padding(2), Ping, Ping >> }
UnknownTypes == { 2, 255 }

StartsWith(buf, prefix) == Len(buf) >= Len(prefix) /\ SubSeq(buf, 1, Len(prefix)) = prefix

\* C12: when a payload holds a frame with an unknown type byte, the frames before
\* it are dispatched in wire order, decoding stops at that byte, which is
\* reported as the offending type, and no later frame is dispatched; for the
\* payload [0x01, 0xFF, 0x01] exactly one PING is dispatched.
C12_UnknownFrameTypeStopsDispatch ==
    [][ServerStep =>
          LET payload == PayloadOf(lastIn'.data)
          IN  /\ \A fs \in KnownPrefixes, b \in UnknownTypes :
                     StartsWith(payload, EncodeFrames(fs) \o << b >>) =>
                         /\ dispatched' = fs
                         /\ Len(outbound') = Cardinality({ i \in 1..Len(fs) : fs[i] = Ping })
                         /\ Frame_decode(Drop(payload, Len(EncodeFrames(fs)))).err
                                = << "UnknownFrameType", b >>
              /\ payload = << 1, 255, 1 >> => dispatched' = << Ping >>
      ]_vars

C12_Witness ==
    /\ lastIn.routed # None
    /\ PayloadOf(lastIn.data) = << 1, 255, 1 >>
    /\ dispatched = << Ping >>
    /\ Len(outbound) = 1

\* the datagram is malformed somewhere: in its header or in one of its frames
IsMalformed(data) ==
    \/ ~PacketHeader_decode(data).ok
    \/ FramesOf(data).err # <<>>

\* C13: a datagram that is malformed anywhere (packet header, frame header,
\* varint, length mismatch) is discarded with no state change and no report to
\* the peer: the connection table, every Connection's state and next packet
\* number are the same after processing it as before, and no datagram is sent.
C13_MalformedDatagramChangesNothing ==
    [][(lastIn'.n = lastIn.n + 1 /\ IsMalformed(lastIn'.data)) =>
          /\ connections' = connections
          /\ outbound' = <<>>
      ]_vars

\* C18: the first outbound packet of an initiator with TLS set up
\* (start_tls_handshake) is an Initial packet whose first frame is a CRYPTO frame
\* with offset 0 carrying the pending TLS output, and a responder with TLS set up
\* that processes that CRYPTO frame produces a packet whose first frame is a
\* CRYPTO frame with offset 0.
C18_TlsFirstFlight ==
    [][/\ (last' # last /\ last'.op = "start_tls_handshake") =>
              /\ last'.res.ok
              /\ HeaderOf(last'.res.packet).form = "Long"
              /\ HeaderOf(last'.res.packet).packet_type = "Initial"
              /\ QuicClientTls_new.pending # <<>>
              /\ FramesOf(last'.res.packet)
                     = [frames |-> << Crypto(0, QuicClientTls_new.pending) >>, err |-> <<>>]
       /\ (/\ ServerStep
           /\ mode = "tls"
           /\ \E i \in 1..Len(produced) :
                  /\ produced[i] = lastIn'.data
                  /\ FramesOf(produced[i]).frames[1].type = "Crypto"
           /\ LET k == lastIn'.routed[1]
              IN  /\ k \in DOMAIN connections =>
                         connections[k].server_tls = Some(QuicServerTls_new)
                  /\ connections'[k].server_tls[1].phase # "failed") =>
              /\ Len(outbound') = 1
              /\ outbound'[1].to = lastIn'.peer_addr
              /\ LET frames == FramesOf(outbound'[1].data).frames
                 IN  /\ frames # <<>>
                     /\ frames[1].type = "Crypto"
                     /\ frames[1].offset = 0
                     /\ frames[1].data # <<>>
      ]_vars

C18_Witness ==
    /\ mode = "tls"
    /\ produced # <<>>
    /\ FramesOf(produced[1]).frames = << Crypto(0, ClientHello) >>
    /\ LevelOf(produced[1]) = "Initial"
    /\ lastIn.data = produced[1]
    /\ ~lastIn.existed
    /\ Len(outbound) = 1
    /\ FramesOf(outbound[1].data).frames[1].type = "Crypto"
    /\ FramesOf(outbound[1].data).frames[1].offset = 0

----------------------------------------------------------------------------
(* Properties of the connection table (SpecMgr) *)

\* C9: the table maps each key to at most one Connection: after
\* add_connection(k, c) get_connection(k) returns c, replacing any earlier
\* entry; after remove_connection(k) get_connection(k) returns none; neither
\* changes the entry stored under another key.
C9_TableOperations ==
    [][LET k == lastIn'.key
           others_unchanged ==
               \A x \in MgrKeys \ {k} :
                   /\ x \in DOMAIN connections' <=> x \in DOMAIN connections
                   /\ x \in DOMAIN connections => connections'[x] = connections[x]
       IN  /\ lastIn'.op = "add_connection" =>
                  /\ get_connection(connections', k) = Some(lastIn'.connection)
                  /\ others_unchanged
           /\ lastIn'.op = "remove_connection" =>
                  /\ get_connection(connections', k) = None
                  /\ others_unchanged
           /\ lastIn'.op = "get_connection" =>
                  /\ connections' = connections
                  /\ (k \in DOMAIN connections => lastIn'.res = Some(connections[k]))
                  /\ (k \notin DOMAIN connections => lastIn'.res = None)
      ]_vars

C9_Witness ==
    /\ lastIn.op = "get_connection"
    /\ lastIn.res # None
    /\ Cardinality(DOMAIN connections) = 3
    /\ \E x, y \in DOMAIN connections : connections[x] # connections[y]

----------------------------------------------------------------------------
(* Properties of the TLS handshake of one Connection (Spec) *)

\* the TLS driver of a Connection, as an Option
TlsOf(c) == IF c.is_client THEN c.client_tls ELSE c.server_tls

\* the last call was process_crypto_frame on a CRYPTO frame, with TLS set up
FedCrypto ==
    /\ last.op = "process_crypto_frame"
    /\ last.arg.type = "Crypto"
    /\ TlsOf(last.before) # None

HasFatalClose(packet) ==
    LET frames == FramesOf(packet).frames
    IN  \E i \in 1..Len(frames) :
            frames[i].type = "ConnectionClose" /\ frames[i].error_code # 0

\* C14: a TLS driver error is fatal: when the driver fails on the data of a
\* CRYPTO frame the Connection produces a CONNECTION_CLOSE with a nonzero error
\* code and its state becomes Closing.
C14_TlsErrorIsFatal ==
    (FedCrypto /\ ~last.res.ok) =>
        /\ conn.state = "Closing"
        /\ \E i \in 1..Len(produced) : HasFatalClose(produced[i])

\* C15: a Connection enters Established only from Handshake, with the
\* Handshake-level keys installed.
C15_EstablishedOnlyFromHandshake ==
    [][(conn'.state = "Established" /\ conn.state # "Established") =>
          /\ conn.state = "Handshake"
          /\ "Handshake" \in DOMAIN conn'.crypto
      ]_vars

\* C17: after every call that feeds received handshake bytes to the TLS driver
\* the engine drains the driver's pending output, so no handshake byte is left
\* pending in the driver once a CRYPTO frame has been processed.
C17_PendingOutputIsDrained ==
    (FedCrypto /\ last.res.ok) => TlsOf(conn)[1].pending = <<>>

RECURSIVE CryptoLen(_)
CryptoLen(frames) ==
    IF frames = <<>> THEN 0
    ELSE (IF Head(frames).type = "Crypto" THEN Len(Head(frames).data) ELSE 0)
         + CryptoLen(Tail(frames))

\* handshake bytes sent in CRYPTO frames at a level by the first n packets
RECURSIVE CryptoSent(_, _)
CryptoSent(n, level) ==
    IF n = 0 THEN 0
    ELSE CryptoSent(n - 1, level)
         + (IF LevelOf(produced[n]) = level THEN CryptoLen(FramesOf(produced[n]).frames) ELSE 0)

\* C19: the offset of every CRYPTO frame a Connection sends equals the number of
\* handshake bytes it has already sent in CRYPTO frames at the same level.
C19_CryptoOffsetsContinue ==
    \A n \in 1..Len(produced) :
        LET frames == FramesOf(produced[n]).frames
        IN  \A i \in 1..Len(frames) :
                frames[i].type = "Crypto" =>
                    frames[i].offset = CryptoSent(n - 1, LevelOf(produced[n]))
                                       + CryptoLen(SubSeq(frames, 1, i - 1))

\* C20: received CRYPTO data is placed at the frame's offset and only the
\* contiguous prefix is handed to the TLS driver: a frame that starts beyond
\* what a new driver has received leaves a gap, and the driver is handed nothing.
C20_OnlyContiguousPrefixIsHandedOver ==
    (/\ FedCrypto
     /\ last.arg.offset > 0
     /\ TlsOf(last.before) \in { Some(QuicClientTls_new), Some(QuicServerTls_new) })
        => TlsOf(conn)[1].phase = TlsOf(last.before)[1].phase

----------------------------------------------------------------------------
(* Properties of the handshake between two endpoints (SpecHandshake) *)

\* the client has sent its first flight
HandshakeStarted ==
    \E i \in 1..Len(produced) : HasCrypto(FramesOf(produced[i]).frames)

\* every packet produced so far has been delivered
ChannelsDrained == to_server = <<>> /\ to_client = <<>>

\* neither TLS driver has reported an error
NoDriverFailure ==
    /\ conn.client_tls[1].phase # "failed"
    /\ \A k \in DOMAIN connections : connections[k].server_tls[1].phase # "failed"

\* C16: an initiator and a responder, both with TLS set up, that deliver to each
\* other every packet produced by start_tls_handshake and process_crypto_frame
\* over a lossless in-order channel both reach state Established (within four
\* round trips): once the first flight is sent and nothing is left to deliver,
\* both ends are Established.
C16_HandshakeConverges ==
    (HandshakeStarted /\ ChannelsDrained /\ NoDriverFailure) =>
        /\ conn.state = "Established"
        /\ conn.local_conn_id \in DOMAIN connections
        /\ connections[conn.local_conn_id].state = "Established"

----------------------------------------------------------------------------
(* Properties of encryption levels on the receive path (SpecServer) *)

\* the encryption level of a packet: Initial or Handshake by the long-header
\* packet type, Application for a short header
EncryptionLevelOf(header) ==
    IF header.form = "Short" THEN "Application" ELSE header.packet_type

\* the keys of the Connection the step's datagram is routed to: those of the
\* table entry, or those of the Connection the loop creates for it
ReceiverKeys ==
    IF lastIn'.routed[1] \in DOMAIN connections
    THEN DOMAIN connections[lastIn'.routed[1]].crypto
    ELSE DOMAIN new_server(lastIn'.peer_addr, lastIn'.routed[1], <<>>).crypto

\* C21: an inbound packet whose encryption level has no installed keys on the
\* receiving Connection is discarded: none of its frames is dispatched, nothing
\* is sent and no state changes.
C21_KeylessPacketIsDiscarded ==
    [][(ServerStep /\ EncryptionLevelOf(HeaderOf(lastIn'.data)) \notin ReceiverKeys)
           => /\ dispatched' = <<>>
              /\ outbound' = <<>>
              /\ connections' = connections]_vars

----------------------------------------------------------------------------
(* Properties of a closed Connection and of packet addressing (Spec) *)

\* the operation returned a packet
ReturnedPacket == last.res.ok /\ last.res.packet # <<>>

\* C22: a Connection whose state is Closed produces no further output: once
\* it has reached Closed, none of create_initial_packet,
\* create_handshake_packet, close and process_crypto_frame returns a packet.
C22_ClosedProducesNothing ==
    (/\ last.op \in {"create_initial_packet", "create_handshake_packet", "close",
                     "process_crypto_frame"}
     /\ last.before.state = "Closed")
        => ~ReturnedPacket

\* the packet the operation returned
LastPacket ==
    IF last.op = "process_crypto_frame" THEN last.res.packet[1] ELSE last.res.packet

\* C23: every packet a Connection produces carries the Connection's local CID
\* as source CID and, as destination CID, the stored remote CID (of any length
\* from 0 to 20 bytes), or the empty byte string while no remote CID is known.
C23_PacketCarriesConnectionIds ==
    (last.op \in {"create_initial_packet", "create_handshake_packet", "close",
                  "start_tls_handshake", "process_crypto_frame"}
     /\ ReturnedPacket)
        => /\ PacketHeader_decode(LastPacket).ok
           /\ HeaderOf(LastPacket).form = "Long"
           /\ HeaderOf(LastPacket).src_conn_id = last.before.local_conn_id
           /\ HeaderOf(LastPacket).dest_conn_id =
                  IF last.before.remote_conn_id = None THEN <<>>
                  ELSE last.before.remote_conn_id[1]

\* a packet was produced by a Connection whose remote CID has 20 bytes
C23_Witness ==
    /\ last.op \in {"create_initial_packet", "create_handshake_packet", "close",
                    "start_tls_handshake", "process_crypto_frame"}
    /\ ReturnedPacket
    /\ last.before.remote_conn_id # None
    /\ Len(last.before.remote_conn_id[1]) = 20
    /\ Len(HeaderOf(LastPacket).dest_conn_id) = 20

----------------------------------------------------------------------------
(* Properties of the constructors (SpecServer) *)

\* what new_client and new_server have in common
FreshConnection(c) ==
    /\ c.state = "Initial"
    /\ c.packet_number = 0
    /\ c.version = 1
    /\ Len(c.local_conn_id) = 8
    /\ DOMAIN c.crypto = {"Initial"}

\* C24: new_client returns a Connection in state Initial with next packet
\* number 0, version 1, an 8-byte local CID, no remote CID, the given peer
\* address and keys installed for the Initial level only; new_server returns
\* the same except that its remote CID is the peer CID passed in.
C24_Constructors ==
    /\ last = NoOp =>
           /\ FreshConnection(conn)
           /\ conn.remote_conn_id = None
           /\ conn.remote_addr = ServerAddr
    /\ \A i \in 1..Len(created) :
           /\ FreshConnection(created[i].conn)
           /\ created[i].conn.remote_conn_id = Some(created[i].key)
    /\ (lastIn.routed # None /\ ~lastIn.existed) =>
           created[Len(created)].conn.remote_addr = lastIn.peer_addr

\* the loop has just created a responder for the peer CID 01 02 03 04 while the
\* initiator is as new_client returned it
C24_Witness ==
    /\ last = NoOp
    /\ lastIn.routed = Some(<<1, 2, 3, 4>>)
    /\ ~lastIn.existed
    /\ created[Len(created)].conn.remote_conn_id = Some(<<1, 2, 3, 4>>)
    /\ created[Len(created)].conn.remote_addr = OtherAddr

----------------------------------------------------------------------------
(* Properties of QuicCrypto and of the level close uses (SpecCrypto) *)

\* the highest encryption level whose keys are installed
HighestLevel(crypto) ==
    IF "Application" \in DOMAIN crypto THEN "Application"
    ELSE IF "Handshake" \in DOMAIN crypto THEN "Handshake"
    ELSE "Initial"

C26_InitialRoundTrip ==
    (/\ last.op = "decrypt_packet"
     /\ last.level = "Initial"
     /\ last.sent.level = "Initial")
        => IF last.kind = "none"
           THEN /\ last.res.ok
                /\ last.res.value.plaintext = last.sent.payload
                /\ last.res.value.len = Len(last.sent.payload)
           ELSE /\ ~last.res.ok
                /\ last.res.err = << "DecryptionFailed" >>

\* a QuicCrypto opened a three-byte payload it had sealed itself at the
\* Initial level, and the sealed bytes differ from the payload
C26_Witness ==
    /\ last.op = "decrypt_packet"
    /\ last.level = "Initial"
    /\ last.sent.level = "Initial"
    /\ last.by = last.sent.by
    /\ last.kind = "none"
    /\ last.sent.payload = << 6, 0, 2 >>
    /\ last.sent.ciphertext.body # last.sent.payload
    /\ last.res.ok

\* the receive material of one QuicCrypto is the send material of the other
Mirrored(a, b) ==
    /\ a.local_key = b.remote_key
    /\ a.local_iv = b.remote_iv
    /\ a.local_pn_key = b.remote_pn_key

\* C27: for Handshake and Application keys derived from the same secret, an
\* initiator uses the client-direction material to send and the
\* server-direction material to receive, and a responder swaps them: the send
\* key, IV and header-protection key of one role equal the receive key, IV and
\* header-protection key of the other, so a packet sealed by either role at
\* that level (with the keys now installed) is opened successfully by the
\* opposite role.
C27_DirectionalKeysMirror ==
    \A level \in derived :
        /\ level \in DOMAIN conn.crypto
        /\ level \in DOMAIN peer
        /\ Mirrored(conn.crypto[level], peer[level])
        /\ Mirrored(peer[level], conn.crypto[level])
        /\ (last.op = "encrypt_packet" /\ last.level = level) => last.res.ok
        /\ (/\ last.op = "decrypt_packet"
            /\ last.level = level
            /\ last.sent.level = level
            /\ last.by # last.sent.by
            /\ last.sent.ciphertext.tag.key = QuicCryptoOf(last.sent.by)[level].local_key
            /\ last.kind = "none")
               => last.res.ok /\ last.res.value.plaintext = last.sent.payload

\* the QuicCrypto the last operation was called on
UsedCrypto == IF "by" \in DOMAIN last THEN QuicCryptoOf(last.by) ELSE conn.crypto

\* C28: packets at an encryption level can be sealed or opened only once that
\* level's keys are installed: encrypt_packet, decrypt_packet,
\* encrypt_packet_number and decrypt_packet_number for a level without
\* installed keys return the NoKeys error, and installing keys for one level
\* neither installs nor alters the keys of another level.
C28_NoKeysAndLevelIsolation ==
    /\ last.op \in {"encrypt_packet", "decrypt_packet", "encrypt_packet_number",
                    "decrypt_packet_number"}
           => IF last.level \in DOMAIN UsedCrypto
              THEN last.res.err # << "NoKeys" >>
              ELSE ~last.res.ok /\ last.res.err = << "NoKeys" >>
    /\ last.op \in {"setup_initial_keys", "setup_handshake_keys", "setup_application_keys"}
           => \A l \in EncryptionLevels \ {last.level} :
                  /\ l \in DOMAIN last.after <=> l \in DOMAIN last.before
                  /\ l \in DOMAIN last.before => last.after[l] = last.before[l]

\* decrypt_packet_number was called for the Application level on a QuicCrypto
\* that holds Initial keys only
C28_Witness ==
    /\ last.op = "decrypt_packet_number"
    /\ last.level = "Application"
    /\ DOMAIN conn.crypto = {"Initial"}
    /\ last.res.err = << "NoKeys" >>

----------------------------------------------------------------------------
(* Properties of the variable-length integer codec (SpecVarint) *)

\* the value is below 2^62
Below2to62(v) == v[1] < 64

\* the value is below 2^31, where the codec on integers is exact in the model
Below2to31(v) == Take(v, 4) = Zeros(4) /\ v[5] < 128

\* the minimum length among 1, 2, 4 and 8 bytes that fits the value
MinimumLength(v) ==
    IF Take(v, 7) = Zeros(7) /\ v[8] < 64 THEN 1
    ELSE IF Take(v, 6) = Zeros(6) /\ v[7] < 64 THEN 2
    ELSE IF Take(v, 4) = Zeros(4) /\ v[5] < 64 THEN 4
    ELSE 8

\* C29: VarInt round trip: for every value v in [0, 2^62), decoding the
\* encoding of v yields v and consumes exactly the encoded bytes, and the
\* encoding has the minimum length among 1, 2, 4 and 8 bytes that fits v
\* (1 byte below 2^6, 2 bytes below 2^14, 4 bytes below 2^30, 8 bytes
\* otherwise).  Below 2^31 the codec on integers gives the same bytes and the
\* same value.
C29_VarintRoundTrip ==
    (last.op = "decode_varint" /\ Below2to62(last.value)) =>
        /\ last.res.ok
        /\ last.res.value = last.value
        /\ last.res.rest = last.trailing
        /\ Len(last.encoded) = MinimumLength(last.value)
        /\ Below2to31(last.value) =>
               /\ encode_varint(u64_from_be_bytes(last.value)) = last.encoded
               /\ decode_varint(last.encoded \o last.trailing).ok
               /\ decode_varint(last.encoded \o last.trailing).value
                      = u64_from_be_bytes(last.value)
               /\ decode_varint(last.encoded \o last.trailing).rest = last.trailing

\* 2^62 - 1 was encoded in 8 bytes and decoded with two bytes following it
C29_Witness ==
    /\ last.op = "decode_varint"
    /\ last.value = << 63, 255, 255, 255, 255, 255, 255, 255 >>
    /\ Len(last.encoded) = 8
    /\ last.trailing = << 200, 7 >>
    /\ last.res.ok
    /\ last.res.rest = << 200, 7 >>

\* C30: values of 2^62 and above are unrepresentable as variable-length
\* integers and encoders reject them: encoding a frame field or packet number
\* of 2^62 or more returns an error to the caller, never bytes that decode to
\* a different value.
C30_OutOfRangeIsRejected ==
    (last.op \in {"decode_varint", "decode_packet_number"} /\ ~Below2to62(last.value)) =>
        ~(last.res.ok /\ last.res.value # last.value)

----------------------------------------------------------------------------
(* Properties of the header and frame codecs (SpecCodec) *)

\* C31: PacketHeader::decode(PacketHeader::encode(h)) equals h and leaves the
\* bytes after the header unconsumed, for every long header of type Initial,
\* 0-RTT, Handshake or Retry and every short header, with connection ids of 0
\* to 20 bytes.
C31_HeaderRoundTrip ==
    last.op = "PacketHeader_decode" =>
        /\ last.res.ok
        /\ last.res.header = last.arg
        /\ last.res.rest = last.trailing

\* C32: Frame::decode(Frame::encode(f)) equals f and consumes exactly the
\* encoded bytes, for PADDING of length N >= 1, PING, CRYPTO (any offset, any
\* data including none) and CONNECTION_CLOSE (any error code, any UTF-8 reason
\* including the empty one); a run of N zero bytes, the padding together with
\* the zero bytes that follow it, decodes to exactly one Padding{N}.
C32_FrameRoundTrip ==
    (last.op = "Frame_decode" /\ last.from = "Frame_encode") =>
        LET run == IF last.arg.type = "Padding" THEN LeadingZeros(last.trailing) ELSE 0
        IN  /\ last.res.ok
            /\ last.res.frame =
                   IF last.arg.type = "Padding" THEN Padding(last.arg.length + run)
                   ELSE last.arg
            /\ last.res.rest = Drop(last.trailing, run)
            /\ Len(last.encoded) + run + Len(last.res.rest)
                   = Len(last.encoded \o last.trailing)

C32_Witness ==
    /\ last.op = "Frame_decode"
    /\ last.from = "Frame_encode"
    /\ last.arg = Padding(3)
    /\ last.trailing = << 0, 1 >>
    /\ last.res.frame = Padding(4)
    /\ last.res.rest = << 1 >>

\* adjacent PADDING frames, or a PADDING frame of length 0, in a list of frames
AdjacentPadding(frames) ==
    \/ \E i \in 1..Len(frames) : frames[i].type = "Padding" /\ frames[i].length = 0
    \/ \E i \in 1..(Len(frames) - 1) :
          frames[i].type = "Padding" /\ frames[i + 1].type = "Padding"

C35_ConnectionCloseKeepsTrigger ==
    last.op = "re-encode" => last.res = last.arg

----------------------------------------------------------------------------
(* Properties of the two endpoints (SpecHandshake, SpecServer, Spec) *)

\* C34: after an initiator has processed a packet received from the
\* responder, the packets it sends from then on, the answers to that packet
\* included, carry the responder's source CID as destination CID.
C34_RemoteCidLearned ==
    [][LET received == IF last'.op = "client_receive" THEN last'.arg ELSE last.arg
       IN  (/\ last'.op = "client_receive" \/ last.op = "client_receive"
            /\ PacketHeader_decode(received).ok
            /\ Len(produced') > Len(produced))
           => HeaderOf(produced'[Len(produced')]).dest_conn_id
                  = HeaderOf(received).src_conn_id]_vars

\* state, next packet number and connection ids of a Connection
Essentials(c) == << c.state, c.packet_number, c.local_conn_id, c.remote_conn_id >>

\* C36: start_tls_handshake on a Connection without TLS set up returns
\* TlsNotSetup, process_crypto_frame on a Connection without TLS set up or
\* given a frame that is not CRYPTO returns no packet, and process_crypto_frame
\* returns TlsHandshakeFailed when the TLS driver fails; in each of these cases
\* the Connection's state, next packet number and connection ids are the same
\* as before the call.
C36_NoPacketLeavesConnectionUntouched ==
    /\ (last.op = "start_tls_handshake" /\ TlsOf(last.before) = None) =>
           /\ last.res = PacketErr("TlsNotSetup")
           /\ conn = last.before
    /\ (last.op = "process_crypto_frame"
            /\ (TlsOf(last.before) = None \/ last.arg.type # "Crypto")) =>
           /\ last.res = OptOk(None)
           /\ conn = last.before
    /\ (last.op = "process_crypto_frame" /\ ~last.res.ok) =>
           /\ last.res = OptErr("TlsHandshakeFailed")
           /\ Essentials(conn) = Essentials(last.before)

C36_Witness ==
    /\ last.op = "process_crypto_frame"
    /\ last.res = OptErr("TlsHandshakeFailed")
    /\ last.before.packet_number > 0
    /\ conn.state = last.before.state
    /\ conn.packet_number = last.before.packet_number
    /\ conn # last.before

\* C37: when the responder decodes a CONNECTION_CLOSE frame, no later frame of
\* the same packet is dispatched (a PING after it gets no reply) and the
\* Connection is removed at once, so the next datagram carrying the same CID
\* is served by a fresh Connection in state Initial with packet number 0.
C37_CloseEndsPacketAndConnection ==
    [][ServerStep =>
          /\ HasConnectionClose(dispatched') =>
                 /\ dispatched'[Len(dispatched')].type = "ConnectionClose"
                 /\ ~HasConnectionClose(SubSeq(dispatched', 1, Len(dispatched') - 1))
                 /\ Len(outbound') <= Len(dispatched') - 1
                 /\ lastIn'.routed[1] \notin DOMAIN connections'
          /\ (HasConnectionClose(dispatched) /\ lastIn'.routed = lastIn.routed) =>
                 /\ ~lastIn'.existed
                 /\ Len(created') = Len(created) + 1
                 /\ created'[Len(created')].key = lastIn'.routed[1]
                 /\ created'[Len(created')].conn.state = "Initial"
                 /\ created'[Len(created')].conn.packet_number = 0]_vars

\* the datagram CONNECTION_CLOSE, PING has arrived twice: each time a
\* Connection was created for it, only the CONNECTION_CLOSE was dispatched,
\* nothing was sent and no Connection was left
C37_Witness ==
    /\ lastIn.n = 2
    /\ FramesOf(lastIn.data).frames = << ConnectionClose(0, <<98, 121, 101>>), Ping >>
    /\ dispatched = << ConnectionClose(0, <<98, 121, 101>>) >>
    /\ outbound = <<>>
    /\ Len(created) = 2
    /\ created[1].key = created[2].key
    /\ created[2].conn.state = "Initial"
    /\ created[2].conn.packet_number = 0
    /\ DOMAIN connections = {}

\* the keys of the Connections in the table whose local CID is cid and whose
\* peer is peer_addr
OwnersOf(table, cid, peer_addr) ==
    { k \in DOMAIN table : table[k].local_conn_id = cid /\ table[k].remote_addr = peer_addr }

\* C38: after a responder Connection has been created from a peer's
\* long-header packet, a short-header packet from that peer addressed to that
\* Connection's local CID is dispatched to the same Connection and does not
\* create a second table entry.
C38_ShortHeaderReachesSameConnection ==
    [][(/\ ServerStep
        /\ HeaderOf(lastIn'.data).form = "Short"
        /\ OwnersOf(connections, HeaderOf(lastIn'.data).dest_conn_id, lastIn'.peer_addr) # {})
       => /\ lastIn'.existed
          /\ lastIn'.routed[1] \in OwnersOf(connections, HeaderOf(lastIn'.data).dest_conn_id,
                                            lastIn'.peer_addr)
          /\ Len(created') = Len(created)
          /\ DOMAIN connections' \subseteq DOMAIN connections]_vars

====
